---- MODULE Spec2Model ----
(***************************************************************************)
(* Model of the scoring core of preprocesador_griego:                      *)
(*   preprocesador/normalize.py     normalize_text, tokenize               *)
(*   preprocesador/lemmatize.py     lemmatize_grc_best_effort              *)
(*   preprocesador/frame.py         Frame.score                            *)
(*   preprocesador/pipeline.py      CognitivePreprocessor.run              *)
(*   preprocesador/ensemble.py      minmax_norm, combine_scores,           *)
(*                                  choose_dominant                        *)
(*   preprocesador/embeddings.py    frame_semantic_scores                  *)
(*   preprocesador/rules_engine.py  load_rules, load_rules_from_yaml,      *)
(*                                  apply_rules, aggregate_boosts          *)
(*   preprocesador/frame_loader.py  load_frame_from_yaml                   *)
(*   run_pipeline_final.py          main                                   *)
(*                                                                         *)
(* A Python str is a sequence of code points; a code point is named by a   *)
(* model string ("alpha_tonos" is U+03AC).  A Python dict is a sequence of *)
(* <<key, value>> pairs with distinct keys, in insertion order.            *)
(***************************************************************************)
EXTENDS Integers, Sequences, FiniteSets, TLC

VARIABLES
    op,           \* the last operation applied ("init" after construction)
    text,         \* the input string
    normalized,   \* normalize_text(text)
    renormalized, \* normalize_text(normalize_text(text))
    frame,        \* the Frame shared by the scoring calls
    pack,         \* the dict returned by Frame.score (SpecConcurrent: the
                  \* dicts of the calls in progress)
    result,       \* the PreprocessResult returned by CognitivePreprocessor.run
                  \* (SpecConcurrent: by each call)
    call,         \* the arguments of the call (SpecConcurrent: the locals
                  \* of each call)
    ret,          \* the value the call returned
    rules_doc,    \* the rules document as the loader returned it
    rule_hits     \* the value apply_rules returned

vars == <<op, text, normalized, renormalized, frame, pack, result, call, ret, rules_doc, rule_hits>>

\* the value of a variable that a specification does not use
Unused == <<>>

(***************************************************************************)
(* Bounds of the model.                                                    *)
(***************************************************************************)
MaxTextLen == 3     \* code points of a text given to normalize_text
MaxWords == 2       \* words of a text given to Frame.score
MaxLemmas == 1      \* lemmas the lemmatizer backend returns
MaxEntries == 2     \* lexicon entries of a Frame, over all its dimensions
MaxScore == 1       \* largest score given to choose_dominant
MaxEvidence == 2    \* evidence entries of a dimension given to choose_dominant
MaxValue == 2       \* largest value given to minmax_norm and combine_scores

(***************************************************************************)
(* Sequence helpers.                                                       *)
(***************************************************************************)
RECURSIVE Flatten(_)
Flatten(ss) == IF ss = <<>> THEN <<>> ELSE Head(ss) \o Flatten(Tail(ss))

Range(s) == {s[i] : i \in 1..Len(s)}

StringsUpTo(alphabet, n) == UNION {[1..k -> alphabet] : k \in 0..n}

\* a dict as the sequence of its <<key, value>> items, in insertion order
DictKeys(d) == [i \in 1..Len(d) |-> d[i][1]]

DictValues(d) == [i \in 1..Len(d) |-> d[i][2]]

DictHas(d, k) == \E i \in 1..Len(d) : d[i][1] = k

\* d.get(k, default)
DictGet(d, k, default) ==
    IF DictHas(d, k) THEN d[CHOOSE i \in 1..Len(d) : d[i][1] = k][2] ELSE default

IsDict(d) == \A i, j \in 1..Len(d) : d[i][1] = d[j][1] => i = j

RECURSIVE SumSeq(_)
SumSeq(s) == IF s = <<>> THEN 0 ELSE Head(s) + SumSeq(Tail(s))

\* sorted(s, key=lambda x: x[1], reverse=True) and list.sort with the same
\* arguments: a stable sort of <<item, key>> pairs by descending key (pairs
\* of equal key keep their order)
RECURSIVE InsertByKeyDesc(_, _)
InsertByKeyDesc(x, s) ==
    IF s = <<>> THEN <<x>>
    ELSE IF x[2] > Head(s)[2] THEN <<x>> \o s
         ELSE <<Head(s)>> \o InsertByKeyDesc(x, Tail(s))

\* list.sort left out: the pairs in the order they were appended
SortByKeyDescLeftOut(s) == s

RECURSIVE SortByKeyDesc(_)
SortByKeyDesc(s) ==
    IF s = <<>> THEN <<>>
    ELSE InsertByKeyDesc(s[Len(s)], SortByKeyDesc(SubSeq(s, 1, Len(s) - 1)))

(***************************************************************************)
(* Code points.  The tables are the Unicode data the calls of              *)
(* normalize.py read: the NFKD decomposition, general category Mn,         *)
(* str.lower, the whitespace class of \s and str.strip, and the two        *)
(* regular expressions of the module.                                      *)
(***************************************************************************)
Chars ==
    { "a",            \* U+0061 LATIN SMALL LETTER A
      "A",            \* U+0041 LATIN CAPITAL LETTER A
      "a_acute",      \* U+00E1 LATIN SMALL LETTER A WITH ACUTE
      "alpha",        \* U+03B1 GREEK SMALL LETTER ALPHA
      "ALPHA",        \* U+0391 GREEK CAPITAL LETTER ALPHA
      "alpha_tonos",  \* U+03AC GREEK SMALL LETTER ALPHA WITH TONOS
      "acute",        \* U+0301 COMBINING ACUTE ACCENT (category Mn)
      "circle",       \* U+20DD COMBINING ENCLOSING CIRCLE (category Me)
      "space",        \* U+0020 SPACE
      "tab",          \* U+0009 CHARACTER TABULATION
      "digit" }       \* U+0031 DIGIT ONE

\* unicodedata.normalize("NFKD", ch) of one code point
DecomposeChar(ch) ==
    CASE ch = "a_acute"     -> <<"a", "acute">>
      [] ch = "alpha_tonos" -> <<"alpha", "acute">>
      [] OTHER              -> <<ch>>

\* unicodedata.normalize(cfg.normalize_form, text), cfg.normalize_form = "NFKD"
NFKD(s) == Flatten([i \in 1..Len(s) |-> DecomposeChar(s[i])])

\* unicodedata.category(ch) == "Mn"
IsMark(ch) == ch = "acute"

\* _GREEK_RANGE_RE: the ranges U+0370..U+03FF and U+1F00..U+1FFF
IsGreek(ch) == ch \in {"alpha", "ALPHA", "alpha_tonos"}

\* _GREEK_RANGE_RE.search(t)
HasGreek(s) == \E i \in 1..Len(s) : IsGreek(s[i])

\* _TOKEN_RE: A-Z, a-z and the two Greek ranges
IsTokenChar(ch) == ch \in {"a", "A", "alpha", "ALPHA", "alpha_tonos"}

\* \s of re and the characters str.strip() removes
IsSpace(ch) == ch \in {"space", "tab"}

\* ord(ch): str comparison orders strings by code point
CodePoint(ch) ==
    CASE ch = "tab"         -> 9
      [] ch = "space"       -> 32
      [] ch = "digit"       -> 49
      [] ch = "A"           -> 65
      [] ch = "a"           -> 97
      [] ch = "a_acute"     -> 225
      [] ch = "acute"       -> 769
      [] ch = "ALPHA"       -> 913
      [] ch = "alpha_tonos" -> 940
      [] ch = "alpha"       -> 945
      [] ch = "circle"      -> 8413

\* s < t for two str
RECURSIVE StrLess(_, _)
StrLess(s, t) ==
    IF t = <<>> THEN FALSE
    ELSE IF s = <<>> THEN TRUE
    ELSE IF Head(s) = Head(t) THEN StrLess(Tail(s), Tail(t))
    ELSE CodePoint(Head(s)) < CodePoint(Head(t))

LowerChar(ch) ==
    CASE ch = "A"     -> "a"
      [] ch = "ALPHA" -> "alpha"
      [] OTHER        -> ch

\* _strip_marks
StripMarks(s) == SelectSeq(s, LAMBDA ch : ~IsMark(ch))

\* str.lower
Lower(s) == [i \in 1..Len(s) |-> LowerChar(s[i])]

\* re.sub(r"\s+", " ", t): every maximal run of whitespace becomes one space
RECURSIVE CollapseSpaces(_)
CollapseSpaces(s) ==
    IF s = <<>> THEN <<>>
    ELSE IF IsSpace(Head(s))
         THEN IF Len(s) > 1 /\ IsSpace(s[2])
              THEN CollapseSpaces(Tail(s))
              ELSE <<"space">> \o CollapseSpaces(Tail(s))
         ELSE <<Head(s)>> \o CollapseSpaces(Tail(s))

\* str.strip()
RECURSIVE LStrip(_)
LStrip(s) == IF s # <<>> /\ IsSpace(Head(s)) THEN LStrip(Tail(s)) ELSE s

RECURSIVE RStrip(_)
RStrip(s) ==
    IF s # <<>> /\ IsSpace(s[Len(s)]) THEN RStrip(SubSeq(s, 1, Len(s) - 1)) ELSE s

Strip(s) == RStrip(LStrip(s))

\* the mutant of normalize_text that strips the marks before it decomposes
normalize_text_strip_first(t) ==
    LET t0 == IF HasGreek(t) THEN StripMarks(t) ELSE t
        t1 == NFKD(t0)
        t2 == Lower(t1)
    IN  Strip(CollapseSpaces(t2))

\* normalize_text with `if cfg.strip_diacritics:` as the test of line 25
normalize_text_always_strip(t) ==
    LET t0 == NFKD(t)
        t1 == StripMarks(t0)
        t2 == Lower(t1)
    IN  Strip(CollapseSpaces(t2))

\* normalize_text(text, cfg) under the default NormalizationConfig
\* (lowercase = True, strip_diacritics = True, normalize_form = "NFKD")
normalize_text(t) ==
    LET t0 == NFKD(t)
        t1 == IF HasGreek(t0) THEN StripMarks(t0) ELSE t0
        t2 == Lower(t1)
    IN  Strip(CollapseSpaces(t2))

\* tokenize: _TOKEN_RE.findall(text), the maximal runs of token characters
RECURSIVE TokenizeFrom(_, _)
TokenizeFrom(s, cur) ==
    IF s = <<>> THEN (IF cur = <<>> THEN <<>> ELSE <<cur>>)
    ELSE IF IsTokenChar(Head(s))
         THEN TokenizeFrom(Tail(s), Append(cur, Head(s)))
         ELSE (IF cur = <<>> THEN <<>> ELSE <<cur>>) \o TokenizeFrom(Tail(s), <<>>)

tokenize(s) == TokenizeFrom(s, <<>>)

(***************************************************************************)
(* lemmatize.py and frame.py.                                              *)
(***************************************************************************)
\* the names a Frame can declare as dimensions
DimNames == {"nomos", "dike"}

\* the declared dimension lists of the Frames of the model
DimOrders == {<<>>, <<"nomos">>, <<"nomos", "dike">>, <<"dike", "nomos">>}

\* the lexicon terms: U+03AC and U+0391 both normalize to U+03B1
TermPool == {<<"alpha_tonos">>, <<"ALPHA">>, <<"a">>}

\* the weights of the lexicon terms (Frame takes any float)
Weights == {-1, 0, 1}

\* the words of the texts given to Frame.score
Words == {<<"alpha_tonos">>, <<"A">>}

\* the strings the lemmatizer backend gives as lemmas (U+03AC)
LemmaPool == {<<"alpha_tonos">>}

\* " ".join(words)
RECURSIVE JoinWords(_)
JoinWords(ws) ==
    IF ws = <<>> THEN <<>>
    ELSE IF Len(ws) = 1 THEN Head(ws)
    ELSE Head(ws) \o <<"space">> \o JoinWords(Tail(ws))

Texts == {JoinWords(ws) : ws \in StringsUpTo(Words, MaxWords)}

\* a dimension's block of the lexicon: a dict term -> weight
Blocks == {b \in StringsUpTo(TermPool \X Weights, MaxEntries) : IsDict(b)}

\* Frame(name, description, dimensions, lexicon)
Frames ==
    UNION { { [ name |-> "attic_tragedy_v0",
                description |-> "",
                dimensions |-> ds,
                lexicon |-> [i \in 1..Len(ds) |-> <<ds[i], bs[i]>>] ] :
              bs \in { x \in [1..Len(ds) -> Blocks] :
                         SumSeq([i \in 1..Len(ds) |-> Len(x[i])]) <= MaxEntries } } :
            ds \in DimOrders }

\* lemmatize_grc_best_effort(tokens): what the call can return.  The CLTK
\* backend is outside the program: each route collects the truthy lemmas it
\* finds, whatever their number, and every failure gives [].
LemmatizeOutcomes(tokens) == StringsUpTo(LemmaPool, MaxLemmas)

\* sorted(set(strs)): the distinct strings, ascending
RECURSIVE SortedStrings(_)
SortedStrings(S) ==
    IF S = {} THEN <<>>
    ELSE LET m == CHOOSE x \in S : \A y \in S \ {x} : StrLess(x, y)
         IN  <<m>> \o SortedStrings(S \ {m})

\* frame.py line 33: [normalize_text(l) for l in lemmas_raw if l]
NormalizeLemmas(lemmas_raw) ==
    LET kept == SelectSeq(lemmas_raw, LAMBDA l : l # <<>>)
    IN  [i \in 1..Len(kept) |-> normalize_text(kept[i])]

\* (self.lexicon.get(dim, {}) or {}).items()
LexiconItems(lexicon, dim) == DictGet(lexicon, dim, <<>>)

\* frame.py lines 49-55, one dimension: the (term, w) appended to
\* matches_forms[dim], in the order of the lexicon
FormHits(block, tok_set) ==
    SelectSeq(block, LAMBDA e : normalize_text(e[1]) \in tok_set)

\* the mutant of LemmaHits without the test of lines 62-63
LemmaHitsNoSkip(block, already, lemma_set) ==
    SelectSeq(block, LAMBDA e : normalize_text(e[1]) \in lemma_set)

\* frame.py lines 58-67, one dimension: the (term, w) appended to
\* matches_lemmas[dim]; already is set(matched_forms[dim])
LemmaHits(block, already, lemma_set) ==
    SelectSeq(block, LAMBDA e : /\ normalize_text(e[1]) \notin already
                                /\ normalize_text(e[1]) \in lemma_set)

\* the normalized terms appended to matched_forms[dim] / matched_lemmas[dim]
NormalizedTerms(hits) == [i \in 1..Len(hits) |-> normalize_text(hits[i][1])]

\* Frame.score(text), with the list the lemmatizer returned
FrameScore(fr, txt, lemmas_raw) ==
    LET normalized_text == normalize_text(txt)
        tokens == tokenize(normalized_text)
        lemmas == NormalizeLemmas(lemmas_raw)
        tok_set == Range(tokens)
        lemma_set == Range(lemmas)
        dims == fr.dimensions
        forms(d) == FormHits(LexiconItems(fr.lexicon, d), tok_set)
        already(d) == Range(NormalizedTerms(forms(d)))
        lems(d) == LemmaHits(LexiconItems(fr.lexicon, d), already(d), lemma_set)
        PerDim(F(_)) == [i \in 1..Len(dims) |-> <<dims[i], F(dims[i])>>]
        score(d) == 0 + SumSeq(DictValues(forms(d))) + SumSeq(DictValues(lems(d)))
        sorted_forms(d) == SortByKeyDesc(forms(d))
        sorted_lems(d) == SortByKeyDesc(lems(d))
        set_forms(d) == SortedStrings(Range(NormalizedTerms(forms(d))))
        set_lems(d) == SortedStrings(Range(NormalizedTerms(lems(d))))
    IN  [ normalized_text |-> normalized_text,
          tokens |-> tokens,
          lemmas |-> lemmas,
          scores |-> PerDim(score),
          matches_forms |-> PerDim(sorted_forms),
          matches_lemmas |-> PerDim(sorted_lems),
          matched_forms |-> PerDim(set_forms),
          matched_lemmas |-> PerDim(set_lems) ]

(***************************************************************************)
(* SpecFrame: Frame.score applied to a text, for every Frame.              *)
(***************************************************************************)
InitFrame ==
    /\ rules_doc = Unused
    /\ rule_hits = Unused
    /\ op = "init"
    /\ frame \in Frames
    /\ text = Unused
    /\ pack = Unused
    /\ normalized = Unused
    /\ renormalized = Unused
    /\ result = Unused
    /\ call = Unused
    /\ ret = Unused

Score ==
    /\ op = "init"
    /\ \E txt \in Texts :
         \E lemmas_raw \in LemmatizeOutcomes(tokenize(normalize_text(txt))) :
            /\ text' = txt
            /\ pack' = FrameScore(frame, txt, lemmas_raw)
    /\ op' = "score"
    /\ UNCHANGED <<frame, normalized, renormalized, result, call, ret, rules_doc, rule_hits>>

NextFrame == Score

SpecFrame == InitFrame /\ [][NextFrame]_vars

(***************************************************************************)
(* pipeline.py: CognitivePreprocessor.run.                                 *)
(***************************************************************************)
\* max(values) of a non-empty sequence of numbers
MaxOf(vals) == CHOOSE v \in Range(vals) : \A u \in Range(vals) : u <= v

\* the first element of order that is among cands, else fallback
\* ("for d in order: if d in tied: ..." followed by the default)
FirstIn(order, cands, fallback) ==
    IF \E i \in 1..Len(order) : order[i] \in cands
    THEN order[CHOOSE i \in 1..Len(order) :
                 /\ order[i] \in cands
                 /\ \A j \in 1..(i - 1) : order[j] \notin cands]
    ELSE fallback

\* the mutant of RunDominant that takes the last of the tied dimensions
RunDominantLast(scores, combined_matches, dimensions) ==
    LET max_score == IF scores # <<>> THEN MaxOf(DictValues(scores)) ELSE 0
        top == SelectSeq(DictKeys(scores),
                         LAMBDA d : DictGet(scores, d, 0) = max_score)
    IN  IF top = <<>> THEN "IndexError" ELSE top[Len(top)]

\* the tie-break of run without the evidence step: the first of the top
\* dimensions in the declared order
RunDominantNoEvidence(scores, combined_matches, dimensions) ==
    LET max_score == IF scores # <<>> THEN MaxOf(DictValues(scores)) ELSE 0
        top == SelectSeq(DictKeys(scores),
                         LAMBDA d : DictGet(scores, d, 0) = max_score)
    IN  IF Len(top) = 1 THEN top[1]
        ELSE IF top = <<>> THEN "IndexError"
        ELSE FirstIn(dimensions, Range(top), top[1])

\* pipeline.py lines 40-66: the dominant dimension, or "IndexError" when
\* top2[0] is evaluated on an empty list
RunDominant(scores, combined_matches, dimensions) ==
    LET max_score == IF scores # <<>> THEN MaxOf(DictValues(scores)) ELSE 0
        top == SelectSeq(DictKeys(scores),
                         LAMBDA d : DictGet(scores, d, 0) = max_score)
        ev_count(d) == Len(DictGet(combined_matches, d, <<>>))
        top2 == SortByKeyDesc([i \in 1..Len(top) |-> <<top[i], ev_count(top[i])>>])
        best == top2[1][1]
        best_ev == ev_count(best)
        tied == DictKeys(SelectSeq(top2, LAMBDA p : p[2] = best_ev))
    IN  IF Len(top) = 1 THEN top[1]
        ELSE IF top2 = <<>> THEN "IndexError"
        ELSE IF Len(tied) = 1 THEN best
        ELSE FirstIn(dimensions, Range(tied), tied[1])

\* CognitivePreprocessor(frame).run(text): the PreprocessResult, or the
\* exception raised
CognitivePreprocessorRun(fr, txt, lemmas_raw) ==
    LET pk == FrameScore(fr, txt, lemmas_raw)
        dims == fr.dimensions
        combined_matches ==
            [i \in 1..Len(dims) |->
                <<dims[i], DictGet(pk.matches_forms, dims[i], <<>>)
                           \o DictGet(pk.matches_lemmas, dims[i], <<>>)>>]
        dominant == RunDominant(pk.scores, combined_matches, dims)
    IN  IF dominant = "IndexError"
        THEN [raised |-> "IndexError"]
        ELSE [ raised |-> "none",
               frame |-> fr.name,
               scores |-> pk.scores,
               dominant_dimension |-> dominant,
               normalized_text |-> pk.normalized_text,
               tokens |-> pk.tokens,
               lemmas |-> pk.lemmas,
               matched_forms |-> pk.matched_forms,
               matched_lemmas |-> pk.matched_lemmas,
               matches |-> combined_matches,
               matches_lemmas |-> pk.matches_lemmas ]

(***************************************************************************)
(* SpecPipeline: CognitivePreprocessor.run applied to a text, for every    *)
(* Frame.                                                                  *)
(***************************************************************************)
Run ==
    /\ op = "init"
    /\ \E txt \in Texts :
         \E lemmas_raw \in LemmatizeOutcomes(tokenize(normalize_text(txt))) :
            /\ text' = txt
            /\ result' = CognitivePreprocessorRun(frame, txt, lemmas_raw)
    /\ op' = "run"
    /\ UNCHANGED <<frame, pack, normalized, renormalized, call, ret, rules_doc, rule_hits>>

NextPipeline == Run

SpecPipeline == InitFrame /\ [][NextPipeline]_vars

(***************************************************************************)
(* ensemble.py.  A float is modelled by an exact number: the scores given  *)
(* to choose_dominant are integers; the values given to minmax_norm and    *)
(* combine_scores are integer multiples of 5e-13, so that the 1e-12 of     *)
(* minmax_norm is Epsilon = 2 of them; a quotient is the pair              *)
(* <<numerator, denominator>> with a positive denominator.                 *)
(***************************************************************************)
\* 1e-12, in units of 5e-13
Epsilon == 2

\* the default alpha, beta and gamma of combine_scores, in tenths
DefaultAlpha == 6

DefaultBeta == 3

DefaultGamma == 1

\* equality and order of two quotients
RatEq(x, y) == x[1] * y[2] = y[1] * x[2]

RatLeq(x, y) == x[1] * y[2] <= y[1] * x[2]

MinOf(vals) == CHOOSE v \in Range(vals) : \A u \in Range(vals) : v <= u

\* the mutant of minmax_norm without the test of the spread
minmax_norm_no_guard(scores) ==
    IF scores = <<>> THEN <<>>
    ELSE LET vals == DictValues(scores)
             lo == MinOf(vals)
             hi == MaxOf(vals)
         IN  [i \in 1..Len(scores) |->
                <<scores[i][1], <<scores[i][2] - lo, hi - lo>>>>]

\* minmax_norm(scores)
minmax_norm(scores) ==
    IF scores = <<>> THEN <<>>
    ELSE LET vals == DictValues(scores)
             lo == MinOf(vals)
             hi == MaxOf(vals)
         IN  IF hi - lo < Epsilon
             THEN [i \in 1..Len(scores) |-> <<scores[i][1], <<0, 1>>>>]
             ELSE [i \in 1..Len(scores) |->
                     <<scores[i][1], <<scores[i][2] - lo, hi - lo>>>>]

\* the mutant of combine_scores that min-max normalizes the rule boosts too
combine_scores_norm_boosts(dimensions, lexical_scores, semantic_scores, rule_boosts, alpha, beta, gamma) ==
    LET OverDims(m) == [i \in 1..Len(dimensions) |->
                          <<dimensions[i], DictGet(m, dimensions[i], 0)>>]
        lex_n == minmax_norm(OverDims(lexical_scores))
        sem_n == minmax_norm(OverDims(semantic_scores))
        rb_n == minmax_norm(OverDims(rule_boosts))
        out(d) ==
            LET l == DictGet(lex_n, d, <<0, 1>>)
                m == DictGet(sem_n, d, <<0, 1>>)
                rb == DictGet(rb_n, d, <<0, 1>>)
            IN  << alpha * l[1] * m[2] * rb[2] + beta * m[1] * l[2] * rb[2]
                     + gamma * rb[1] * l[2] * m[2],
                   10 * l[2] * m[2] * rb[2] >>
    IN  [i \in 1..Len(dimensions) |-> <<dimensions[i], out(dimensions[i])>>]

\* combine_scores(dimensions, lexical_scores, semantic_scores, rule_boosts,
\* alpha, beta, gamma), the three weights in tenths; None and {} are both
\* the empty dict ("semantic_scores or {}")
combine_scores(dimensions, lexical_scores, semantic_scores, rule_boosts, alpha, beta, gamma) ==
    LET OverDims(m) == [i \in 1..Len(dimensions) |->
                          <<dimensions[i], DictGet(m, dimensions[i], 0)>>]
        lex_n == minmax_norm(OverDims(lexical_scores))
        sem_n == minmax_norm(OverDims(semantic_scores))
        out(d) ==
            LET rb == DictGet(rule_boosts, d, 0)
                l == DictGet(lex_n, d, <<0, 1>>)
                m == DictGet(sem_n, d, <<0, 1>>)
            IN  << alpha * l[1] * m[2] + beta * m[1] * l[2] + gamma * rb * l[2] * m[2],
                   10 * l[2] * m[2] >>
    IN  [i \in 1..Len(dimensions) |-> <<dimensions[i], out(dimensions[i])>>]

\* the mutant of choose_dominant that breaks the last tie by the order of
\* the score map instead of dims_order
choose_dominant_map_order(scores, evidence, dims_order) ==
    IF scores = <<>> THEN [dominant |-> "None", tie_break |-> FALSE]
    ELSE
    LET max_score == MaxOf(DictValues(scores))
        top == SelectSeq(DictKeys(scores),
                         LAMBDA d : DictGet(scores, d, 0) = max_score)
        ev_count(d) == Len(DictGet(evidence, d, <<>>))
        top_sorted ==
            SortByKeyDesc([i \in 1..Len(top) |-> <<top[i], ev_count(top[i])>>])
        best == top_sorted[1][1]
        best_ev == ev_count(best)
        tied == DictKeys(SelectSeq(top_sorted, LAMBDA p : p[2] = best_ev))
    IN  IF Len(top) = 1 THEN [dominant |-> top[1], tie_break |-> FALSE]
        ELSE IF Len(tied) = 1 THEN [dominant |-> best, tie_break |-> TRUE]
        ELSE [dominant |-> tied[1], tie_break |-> TRUE]

\* the mutant of choose_dominant that gives no dominant when the maximum is
\* shared
choose_dominant_none_on_tie(scores, evidence, dims_order) ==
    IF scores = <<>> THEN [dominant |-> "None", tie_break |-> FALSE]
    ELSE
    LET max_score == MaxOf(DictValues(scores))
        top == SelectSeq(DictKeys(scores),
                         LAMBDA d : DictGet(scores, d, 0) = max_score)
    IN  IF Len(top) = 1 THEN [dominant |-> top[1], tie_break |-> FALSE]
        ELSE [dominant |-> "None", tie_break |-> TRUE]

\* the mutant of choose_dominant that skips the evidence step
choose_dominant_no_evidence(scores, evidence, dims_order) ==
    IF scores = <<>> THEN [dominant |-> "None", tie_break |-> FALSE]
    ELSE
    LET max_score == MaxOf(DictValues(scores))
        top == SelectSeq(DictKeys(scores),
                         LAMBDA d : DictGet(scores, d, 0) = max_score)
        order == IF dims_order # <<>> THEN dims_order ELSE DictKeys(scores)
    IN  IF Len(top) = 1 THEN [dominant |-> top[1], tie_break |-> FALSE]
        ELSE [dominant |-> FirstIn(order, Range(top), top[1]), tie_break |-> TRUE]

\* choose_dominant with `return dims_order[0], True` as its last line
choose_dominant_head_of_order(scores, evidence, dims_order) ==
    IF scores = <<>> THEN [dominant |-> "None", tie_break |-> FALSE]
    ELSE
    LET max_score == MaxOf(DictValues(scores))
        top == SelectSeq(DictKeys(scores),
                         LAMBDA d : DictGet(scores, d, 0) = max_score)
        order == IF dims_order # <<>> THEN dims_order ELSE DictKeys(scores)
        ev_count(d) == Len(DictGet(evidence, d, <<>>))
        top_sorted ==
            SortByKeyDesc([i \in 1..Len(top) |-> <<top[i], ev_count(top[i])>>])
        best == top_sorted[1][1]
        best_ev == ev_count(best)
        tied == DictKeys(SelectSeq(top_sorted, LAMBDA p : p[2] = best_ev))
    IN  IF Len(top) = 1 THEN [dominant |-> top[1], tie_break |-> FALSE]
        ELSE IF Len(tied) = 1 THEN [dominant |-> best, tie_break |-> TRUE]
        ELSE [dominant |-> FirstIn(order, Range(tied), order[1]), tie_break |-> TRUE]

\* choose_dominant with tie_break True only when the declared order decided
choose_dominant_flag_on_order(scores, evidence, dims_order) ==
    IF scores = <<>> THEN [dominant |-> "None", tie_break |-> FALSE]
    ELSE
    LET max_score == MaxOf(DictValues(scores))
        top == SelectSeq(DictKeys(scores),
                         LAMBDA d : DictGet(scores, d, 0) = max_score)
        order == IF dims_order # <<>> THEN dims_order ELSE DictKeys(scores)
        ev_count(d) == Len(DictGet(evidence, d, <<>>))
        top_sorted ==
            SortByKeyDesc([i \in 1..Len(top) |-> <<top[i], ev_count(top[i])>>])
        best == top_sorted[1][1]
        best_ev == ev_count(best)
        tied == DictKeys(SelectSeq(top_sorted, LAMBDA p : p[2] = best_ev))
    IN  IF Len(top) = 1 THEN [dominant |-> top[1], tie_break |-> FALSE]
        ELSE IF Len(tied) = 1 THEN [dominant |-> best, tie_break |-> FALSE]
        ELSE [dominant |-> FirstIn(order, Range(tied), tied[1]), tie_break |-> TRUE]

\* choose_dominant(scores, evidence, dims_order): (dominant, tie_break);
\* None and an empty evidence or dims_order are both the empty value
\* ("evidence or {}", "dims_order or list(scores.keys())")
choose_dominant(scores, evidence, dims_order) ==
    IF scores = <<>> THEN [dominant |-> "None", tie_break |-> FALSE]
    ELSE
    LET max_score == MaxOf(DictValues(scores))
        top == SelectSeq(DictKeys(scores),
                         LAMBDA d : DictGet(scores, d, 0) = max_score)
        order == IF dims_order # <<>> THEN dims_order ELSE DictKeys(scores)
        ev_count(d) == Len(DictGet(evidence, d, <<>>))
        top_sorted ==
            SortByKeyDesc([i \in 1..Len(top) |-> <<top[i], ev_count(top[i])>>])
        best == top_sorted[1][1]
        best_ev == ev_count(best)
        tied == DictKeys(SelectSeq(top_sorted, LAMBDA p : p[2] = best_ev))
    IN  IF Len(top) = 1 THEN [dominant |-> top[1], tie_break |-> FALSE]
        ELSE IF Len(tied) = 1 THEN [dominant |-> best, tie_break |-> TRUE]
        ELSE [dominant |-> FirstIn(order, Range(tied), tied[1]), tie_break |-> TRUE]

(***************************************************************************)
(* SpecChoose: choose_dominant applied to its arguments.                   *)
(* SpecCombine: minmax_norm and combine_scores applied to their arguments. *)
(* SpecDominant: the two ways the program resolves a dominant dimension,   *)
(* CognitivePreprocessor.run and choose_dominant.                          *)
(***************************************************************************)
\* the dict with the keys of order that f is defined on, in that order
DictOver(order, f) ==
    LET ks == SelectSeq(order, LAMBDA k : k \in DOMAIN f)
    IN  [i \in 1..Len(ks) |-> <<ks[i], f[ks[i]]>>]

\* the dicts from some of the keys of order to values
PartialMaps(order, values) ==
    {DictOver(order, f) : f \in UNION {[K -> values] : K \in SUBSET Range(order)}}

\* the dicts with the keys ks, in that order, and values from values
MapsOver(ks, values) ==
    {[i \in 1..Len(ks) |-> <<ks[i], vs[i]>>] : vs \in [1..Len(ks) -> values]}

\* the insertion orders of the score maps
ScoreKeyOrders ==
    { <<>>, <<"a">>, <<"a", "b">>, <<"b", "a">>,
      <<"a", "b", "c">>, <<"c", "b", "a">>, <<"b", "c", "a">> }

\* the dims_order arguments (<<>> is None or an empty list)
DimsOrders ==
    { <<>>, <<"a", "b", "c">>, <<"c", "b", "a">>, <<"b", "a">>, <<"b", "c", "a">>,
      <<"c">> }

\* a list of n evidence entries
EvidenceList(n) == [j \in 1..n |-> "x"]

\* the evidence arguments: every dimension is absent or has a list
EvidenceMaps ==
    { [i \in 1..Len(m) |-> <<m[i][1], EvidenceList(m[i][2])>>] :
        m \in PartialMaps(<<"a", "b", "c">>, 0..MaxEvidence) }

ChooseCalls ==
    [ scores : UNION {MapsOver(ks, 0..MaxScore) : ks \in ScoreKeyOrders},
      evidence : EvidenceMaps,
      dims_order : DimsOrders ]

InitChoose ==
    /\ rules_doc = Unused
    /\ rule_hits = Unused
    /\ op = "call"
    /\ call \in ChooseCalls
    /\ ret = Unused
    /\ text = Unused
    /\ normalized = Unused
    /\ renormalized = Unused
    /\ frame = Unused
    /\ pack = Unused
    /\ result = Unused

ChooseDominant ==
    /\ op = "call"
    /\ ret' = choose_dominant(call.scores, call.evidence, call.dims_order)
    /\ op' = "choose_dominant"
    /\ UNCHANGED <<call, text, normalized, renormalized, frame, pack, result, rules_doc, rule_hits>>

NextChoose == ChooseDominant

SpecChoose == InitChoose /\ [][NextChoose]_vars

InitDominant == InitFrame \/ InitChoose

NextDominant == Run \/ ChooseDominant

SpecDominant == InitDominant /\ [][NextDominant]_vars

\* the dimension lists given to combine_scores
CombineDims == {<<>>, <<"a">>, <<"a", "b">>, <<"b", "a">>}

\* the rule boosts of a dimension
BoostValues == {-1, 1}

\* alpha, beta, gamma in tenths; <<>> when the call leaves them out
WeightArgs == {<<>>, <<5, 5, 2>>}

CombineCalls ==
    [ fn : {"combine_scores"},
      dimensions : CombineDims,
      lexical_scores : PartialMaps(<<"a", "b">>, 0..MaxValue),
      semantic_scores : PartialMaps(<<"b", "a">>, 0..MaxValue),
      rule_boosts : PartialMaps(<<"a", "b">>, BoostValues),
      weights : WeightArgs ]

MinMaxCalls ==
    [ fn : {"minmax_norm"},
      scores : UNION {MapsOver(ks, 0..MaxValue) : ks \in ScoreKeyOrders} ]

InitCombine ==
    /\ rules_doc = Unused
    /\ rule_hits = Unused
    /\ op = "call"
    /\ call \in CombineCalls \cup MinMaxCalls
    /\ ret = Unused
    /\ text = Unused
    /\ normalized = Unused
    /\ renormalized = Unused
    /\ frame = Unused
    /\ pack = Unused
    /\ result = Unused

MinMaxNorm ==
    /\ op = "call"
    /\ call.fn = "minmax_norm"
    /\ ret' = minmax_norm(call.scores)
    /\ op' = "minmax_norm"
    /\ UNCHANGED <<call, text, normalized, renormalized, frame, pack, result, rules_doc, rule_hits>>

\* the weights of a call, with the defaults of the signature
WeightsOf(c) ==
    IF c.weights = <<>> THEN <<DefaultAlpha, DefaultBeta, DefaultGamma>> ELSE c.weights

CombineScores ==
    /\ op = "call"
    /\ call.fn = "combine_scores"
    /\ ret' = combine_scores(call.dimensions, call.lexical_scores,
                             call.semantic_scores, call.rule_boosts,
                             WeightsOf(call)[1], WeightsOf(call)[2], WeightsOf(call)[3])
    /\ op' = "combine_scores"
    /\ UNCHANGED <<call, text, normalized, renormalized, frame, pack, result, rules_doc, rule_hits>>

NextCombine == MinMaxNorm \/ CombineScores

SpecCombine == InitCombine /\ [][NextCombine]_vars

(***************************************************************************)
(* SpecNormalize: normalize_text applied to a string, then to its result.  *)
(***************************************************************************)
InitNormalize ==
    /\ rules_doc = Unused
    /\ rule_hits = Unused
    /\ op = "init"
    /\ text \in StringsUpTo(Chars, MaxTextLen)
    /\ normalized = Unused
    /\ renormalized = Unused
    /\ frame = Unused
    /\ pack = Unused
    /\ result = Unused
    /\ call = Unused
    /\ ret = Unused

NormalizeText ==
    /\ op = "init"
    /\ normalized' = normalize_text(text)
    /\ op' = "normalize_text"
    /\ UNCHANGED <<text, renormalized, frame, pack, result, call, ret, rules_doc, rule_hits>>

Renormalize ==
    /\ op = "normalize_text"
    /\ renormalized' = normalize_text(normalized)
    /\ op' = "renormalize"
    /\ UNCHANGED <<text, normalized, frame, pack, result, call, ret, rules_doc, rule_hits>>

NextNormalize == NormalizeText \/ Renormalize

SpecNormalize == InitNormalize /\ [][NextNormalize]_vars

DeclaredDims == Range(frame.dimensions)

\* the tokens of the text of the call, as Frame.score computes them
TextTokens == Range(tokenize(normalize_text(text)))

\* C1: after Frame.score, in every dimension no lexicon term is recorded both
\* as a form match and as a lemma match, and the score of the dimension is
\* the sum of the weights of its form matches plus the sum of the weights of
\* its lemma matches that are not form matches.
C1_NoDoubleCount ==
    op = "score" =>
        \A d \in DeclaredDims :
            LET forms == DictGet(pack.matches_forms, d, <<>>)
                lems == DictGet(pack.matches_lemmas, d, <<>>)
                fresh == SelectSeq(lems, LAMBDA e : e[1] \notin Range(DictKeys(forms)))
            IN  /\ Range(DictKeys(forms)) \cap Range(DictKeys(lems)) = {}
                /\ DictGet(pack.scores, d, 0)
                     = SumSeq(DictValues(forms)) + SumSeq(DictValues(fresh))

\* C1 witness: a term of non-zero weight matched as a form while its
\* normalized form is also among the lemmas, so that the lemma pass had to
\* skip it.
C1_Witness ==
    /\ op = "score"
    /\ \E d \in DeclaredDims :
          \E i \in 1..Len(DictGet(pack.matches_forms, d, <<>>)) :
             LET e == DictGet(pack.matches_forms, d, <<>>)[i]
             IN  /\ e[2] # 0
                 /\ normalize_text(e[1]) \in Range(pack.lemmas)
                 /\ DictGet(pack.scores, d, 0) # 0

\* C2: after Frame.score, a dimension one of whose lexicon terms, once
\* normalized, is a token of the normalized text has a strictly positive
\* score and lists that normalized term in its matched_forms.
C2_ExactTermScoresPositive ==
    op = "score" =>
        \A d \in DeclaredDims :
            \A e \in Range(LexiconItems(frame.lexicon, d)) :
                normalize_text(e[1]) \in Range(pack.tokens) =>
                    /\ DictGet(pack.scores, d, 0) > 0
                    /\ normalize_text(e[1]) \in Range(DictGet(pack.matched_forms, d, <<>>))

\* C7: CognitivePreprocessor.run on a Frame of two dimensions, each with one
\* lexicon term, both of the same weight w, and a text with both terms
\* among its tokens: both scores are w and the dominant dimension is the
\* first declared one.
C7_TieByDeclaredOrder ==
    (/\ op = "run"
     /\ Len(frame.dimensions) = 2
     /\ frame.dimensions[1] # frame.dimensions[2]
     /\ \A d \in DeclaredDims :
           /\ Len(LexiconItems(frame.lexicon, d)) = 1
           /\ normalize_text(LexiconItems(frame.lexicon, d)[1][1]) \in TextTokens
     /\ LexiconItems(frame.lexicon, frame.dimensions[1])[1][2]
          = LexiconItems(frame.lexicon, frame.dimensions[2])[1][2])
    => LET w == LexiconItems(frame.lexicon, frame.dimensions[1])[1][2]
       IN  /\ result.raised = "none"
           /\ result.scores = <<<<frame.dimensions[1], w>>, <<frame.dimensions[2], w>>>>
           /\ result.dominant_dimension = frame.dimensions[1]

\* C7 witness: the scenario with the dimensions declared dike, nomos, two
\* terms that differ, a positive weight and a lemmatizer that returned a
\* lemma.
C7_Witness ==
    /\ op = "run"
    /\ frame.dimensions = <<"dike", "nomos">>
    /\ frame.lexicon = << <<"dike", << <<<<"a">>, 1>> >> >>,
                          <<"nomos", << <<<<"alpha_tonos">>, 1>> >> >> >>
    /\ TextTokens = {<<"a">>, <<"alpha">>}
    /\ result.raised = "none"
    /\ result.lemmas # <<>>
    /\ result.dominant_dimension = "dike"

(***************************************************************************)
(* choose_dominant (SpecChoose, SpecDominant).                             *)
(***************************************************************************)
\* the keys of a score map with the maximum score
TopDims(scores) ==
    {d \in Range(DictKeys(scores)) :
        \A k \in Range(DictKeys(scores)) : DictGet(scores, k, 0) <= DictGet(scores, d, 0)}

\* len(evidence[d]), a missing entry counting as 0
EvidenceCount(evidence, d) == Len(DictGet(evidence, d, <<>>))

\* the dimensions of the top with the most evidence entries
MostEvidence(scores, evidence) ==
    {d \in TopDims(scores) :
        \A k \in TopDims(scores) : EvidenceCount(evidence, k) <= EvidenceCount(evidence, d)}

\* C3: when more than one dimension has the maximum score, choose_dominant
\* narrows to those of them with the most evidence entries (a missing entry
\* counts as 0): the dominant is one of these, tie_break is True, and when
\* exactly one dimension has the most evidence it is the dominant.
C3_EvidenceNarrows ==
    (op = "choose_dominant" /\ Cardinality(TopDims(call.scores)) > 1) =>
        /\ ret.tie_break = TRUE
        /\ ret.dominant \in MostEvidence(call.scores, call.evidence)
        /\ Cardinality(MostEvidence(call.scores, call.evidence)) = 1 =>
              MostEvidence(call.scores, call.evidence) = {ret.dominant}

\* C3 witness: three dimensions at 1 with 0, 1 and 2 evidence entries and
\* dims_order a, b, c give c.
C3_Witness ==
    /\ op = "choose_dominant"
    /\ call.scores = <<<<"a", 1>>, <<"b", 1>>, <<"c", 1>>>>
    /\ call.evidence = <<<<"a", <<>>>>, <<"b", <<"x">>>>, <<"c", <<"x", "x">>>>>>
    /\ call.dims_order = <<"a", "b", "c">>
    /\ ret = [dominant |-> "c", tie_break |-> TRUE]

\* C4: when several dimensions are tied on the maximum score and on the
\* evidence count, and dims_order lists at least one of them, choose_dominant
\* returns the one of them that comes first in dims_order, whatever the
\* order of the score map.
C4_DeclaredOrderFallback ==
    (/\ op = "choose_dominant"
     /\ Cardinality(MostEvidence(call.scores, call.evidence)) > 1
     /\ Range(call.dims_order) \cap MostEvidence(call.scores, call.evidence) # {})
    => \E i \in 1..Len(call.dims_order) :
          /\ ret.dominant = call.dims_order[i]
          /\ call.dims_order[i] \in MostEvidence(call.scores, call.evidence)
          /\ \A j \in 1..(i - 1) :
                call.dims_order[j] \notin MostEvidence(call.scores, call.evidence)

\* C4 witness: a and b at 1 in a score map that lists a first, equal
\* evidence counts and dims_order b, a give b.
C4_Witness ==
    /\ op = "choose_dominant"
    /\ call.scores = <<<<"a", 1>>, <<"b", 1>>>>
    /\ EvidenceCount(call.evidence, "a") = 1
    /\ EvidenceCount(call.evidence, "b") = 1
    /\ call.dims_order = <<"b", "a">>
    /\ ret = [dominant |-> "b", tie_break |-> TRUE]

\* the condition of C6 on a score map and the dominant resolved from it
DominantPresent(scores, dominant) ==
    /\ (\E d \in Range(DictKeys(scores)) : DictGet(scores, d, 0) > 0) =>
          /\ dominant # "None"
          /\ dominant \in Range(DictKeys(scores))
    /\ dominant = "None" =>
          \A d \in Range(DictKeys(scores)) : DictGet(scores, d, 0) = 0
    /\ dominant # "None" => dominant \in Range(DictKeys(scores))

\* C6: in every result of CognitivePreprocessor.run and of choose_dominant,
\* a score map with a strictly positive score has a dominant dimension that
\* is one of its keys, and the dominant is None only when the score map is
\* empty or all its scores are 0.
C6_DominantPresent ==
    /\ (op = "run" /\ result.raised = "none") =>
          DominantPresent(result.scores, result.dominant_dimension)
    /\ op = "choose_dominant" => DominantPresent(call.scores, ret.dominant)

\* C6 witness: choose_dominant resolved a maximum that is positive and
\* shared by two dimensions.
C6_Witness ==
    /\ op = "choose_dominant"
    /\ Cardinality(TopDims(call.scores)) = 2
    /\ \E d \in TopDims(call.scores) : DictGet(call.scores, d, 0) > 0
    /\ ret.dominant \in TopDims(call.scores)

(***************************************************************************)
(* minmax_norm and combine_scores (SpecCombine).                           *)
(***************************************************************************)
\* the values d.get(k, 0.0) of a dict over a list of keys
ValuesOver(keys, d) == {DictGet(d, keys[i], 0) : i \in 1..Len(keys)}

SetMin(S) == CHOOSE v \in S : \A u \in S : v <= u

SetMax(S) == CHOOSE v \in S : \A u \in S : u <= v

\* the min-max normalization of the claim: the value of key k of d, with
\* the minimum at 0 and the maximum at 1, and 0 when the values are within
\* 1e-12 (two units) of each other
MinMaxOf(keys, d, k) ==
    LET lo == SetMin(ValuesOver(keys, d))
        hi == SetMax(ValuesOver(keys, d))
    IN  IF hi - lo < 2 THEN <<0, 1>> ELSE <<DictGet(d, k, 0) - lo, hi - lo>>

\* C8: combine_scores returns, for exactly the dimensions passed in,
\* alpha * minmax(lexical) + beta * minmax(semantic) + gamma * rule_boost,
\* the lexical and semantic values min-max normalized independently over
\* the dimensions (a missing entry is 0.0), the boosts as supplied, and
\* alpha = 0.6, beta = 0.3, gamma = 0.1 when the call leaves them out.
C8_CombineFormula ==
    op = "combine_scores" =>
        LET alpha == IF call.weights = <<>> THEN 6 ELSE call.weights[1]
            beta == IF call.weights = <<>> THEN 3 ELSE call.weights[2]
            gamma == IF call.weights = <<>> THEN 1 ELSE call.weights[3]
        IN  /\ DictKeys(ret) = call.dimensions
            /\ \A i \in 1..Len(ret) :
                  LET d == ret[i][1]
                      l == MinMaxOf(call.dimensions, call.lexical_scores, d)
                      m == MinMaxOf(call.dimensions, call.semantic_scores, d)
                      rb == DictGet(call.rule_boosts, d, 0)
                  IN  /\ ret[i][2][2] > 0
                      /\ ret[i][2][1] * (10 * l[2] * m[2])
                           = (alpha * l[1] * m[2] + beta * m[1] * l[2]
                                + gamma * rb * l[2] * m[2]) * ret[i][2][2]

\* C8 witness: a call with the default weights over a, b whose lexical
\* scores differ, whose semantic scores lack an entry and differ the other
\* way, and whose boosts are not 0 and 1.
C8_Witness ==
    /\ op = "combine_scores"
    /\ call.weights = <<>>
    /\ call.dimensions = <<"a", "b">>
    /\ call.lexical_scores = <<<<"a", 2>>, <<"b", 0>>>>
    /\ call.semantic_scores = <<<<"b", 2>>>>
    /\ call.rule_boosts = <<<<"a", -1>>, <<"b", 1>>>>
    /\ RatEq(ret[1][2], <<5, 10>>)
    /\ RatEq(ret[2][2], <<4, 10>>)

\* C9: minmax_norm keeps the keys of its input and divides by no zero; when
\* the values are within 1e-12 of each other (a constant or single-entry
\* vector included) every normalized value is 0.0, and otherwise the
\* minimum goes to 0.0, the maximum to 1.0 and every value into [0, 1].
C9_MinMaxRange ==
    op = "minmax_norm" =>
        LET vals == Range(DictValues(call.scores))
        IN  /\ DictKeys(ret) = DictKeys(call.scores)
            /\ \A i \in 1..Len(ret) :
                  /\ ret[i][2][2] > 0
                  /\ RatLeq(<<0, 1>>, ret[i][2])
                  /\ RatLeq(ret[i][2], <<1, 1>>)
                  /\ SetMax(vals) - SetMin(vals) < 2 => RatEq(ret[i][2], <<0, 1>>)
                  /\ SetMax(vals) - SetMin(vals) >= 2 =>
                        /\ call.scores[i][2] = SetMin(vals) => RatEq(ret[i][2], <<0, 1>>)
                        /\ call.scores[i][2] = SetMax(vals) => RatEq(ret[i][2], <<1, 1>>)

\* C9 witness: two values that differ by less than 1e-12 without being equal
\* are both normalized to 0.0.
C9_Witness ==
    /\ op = "minmax_norm"
    /\ call.scores = <<<<"a", 2>>, <<"b", 1>>>>
    /\ RatEq(ret[1][2], <<0, 1>>)
    /\ RatEq(ret[2][2], <<0, 1>>)

(***************************************************************************)
(* preprocesador/embeddings.py: frame_semantic_scores.                     *)
(*                                                                         *)
(* The embedding backend (sentence_transformers) is outside the program:   *)
(* it is missing (the import in _get_model raises ImportError), or its     *)
(* encode raises, or it maps every string to a vector of its choice.       *)
(* cosine(a, b) is kept as the pair of np.dot(a, b) and                    *)
(* norm(a) * norm(b): the float it returns is dot / (norms + 1e-12).       *)
(***************************************************************************)
\* np.linalg.norm(a)
Norm(a) == CHOOSE n \in 0..2 : n * n = a[1] * a[1] + a[2] * a[2]

\* cosine(a, b)
cosine(a, b) ==
    [dot |-> a[1] * b[1] + a[2] * b[2], norms |-> Norm(a) * Norm(b)]

\* the prototype string of dimension d: each term repeated
\* int(min(max(round(float(w)), 1), 3)) times, or str(d) (one symbol)
Prototype(lexicon, d) ==
    LET terms == DictGet(lexicon, d, <<>>)
        lo(w) == IF w > 1 THEN w ELSE 1
        repetitions(w) == IF lo(w) < 3 THEN lo(w) ELSE 3
        toks == Flatten([i \in 1..Len(terms) |->
                           [j \in 1..repetitions(terms[i][2]) |-> terms[i][1]]])
    IN  IF toks # <<>> THEN JoinWords(toks) ELSE <<d>>

\* the behaviours of the backend for a call that encodes the strings S; the
\* vectors a backend returns have an integer norm
EmbeddingBackends(S) ==
    {[status |-> "missing", enc |-> [s \in S |-> <<0, 0>>]],
     [status |-> "raises", enc |-> [s \in S |-> <<0, 0>>]]}
    \cup {[status |-> "ok", enc |-> f] : f \in [S -> {<<0, 0>>, <<1, 0>>, <<0, 1>>}]}

\* frame_semantic_scores(normalized_text, dimensions, lexicon): the dict
\* returned, or the exception that leaves the function
frame_semantic_scores(normalized_text, dimensions, lexicon, backend) ==
    IF backend.status = "missing" THEN [raised |-> "ImportError"]
    ELSE IF backend.status = "raises" THEN [raised |-> "RuntimeError"]
    ELSE LET emb_text == backend.enc[normalized_text]
         IN  [ raised |-> "none",
               value |-> [i \in 1..Len(dimensions) |->
                            <<dimensions[i],
                              cosine(emb_text,
                                     backend.enc[Prototype(lexicon, dimensions[i])])>>] ]

(***************************************************************************)
(* SpecSemantic: frame_semantic_scores applied to a normalized text and    *)
(* the dimensions and lexicon of a Frame, for every backend behaviour.     *)
(***************************************************************************)
FrameSemanticScores ==
    /\ op = "init"
    /\ \E txt \in {normalize_text(w) : w \in Words \cup {<<>>}} :
         \E backend \in EmbeddingBackends({txt} \cup {Prototype(frame.lexicon, d) :
                                                      d \in Range(frame.dimensions)}) :
            /\ call' = [normalized_text |-> txt, backend |-> backend.status]
            /\ ret' = frame_semantic_scores(txt, frame.dimensions, frame.lexicon, backend)
    /\ op' = "frame_semantic_scores"
    /\ UNCHANGED <<frame, text, pack, normalized, renormalized, result, rules_doc, rule_hits>>

NextSemantic == FrameSemanticScores

SpecSemantic == InitFrame /\ [][NextSemantic]_vars

\* C11: when the embedding backend is missing or raises,
\* frame_semantic_scores does not raise and returns a map whose keys are
\* exactly the given dimensions, every value being 0.0 (a cosine whose
\* dot product is 0).
C11_SemanticFallbackZeros ==
    (op = "frame_semantic_scores" /\ call.backend \in {"missing", "raises"})
        => /\ ret.raised = "none"
           /\ DictKeys(ret.value) = frame.dimensions
           /\ \A i \in 1..Len(ret.value) : ret.value[i][2].dot = 0

(***************************************************************************)
(* preprocesador/lemmatize.py: lemmatize_grc_best_effort, lemmatize_grc.   *)
(*                                                                         *)
(* The CLTK backend is outside the program: it is unavailable (the import  *)
(* raises), or NLP(...) or analyze raises, or analyze returns a doc.  A    *)
(* doc is the lemma of each element of its words, of its tokens and of its *)
(* spacy_doc; a lemma that is None or "" is the empty string, and a doc    *)
(* without one of the attributes has it empty.                             *)
(***************************************************************************)
\* the behaviours of the CLTK backend
LemmatizerBackends ==
    LET DocLemmas == StringsUpTo(LemmaPool \cup {<<>>}, MaxLemmas)
    IN  {[status |-> st, words |-> <<>>, tokens |-> <<>>, spacy_doc |-> <<>>] :
            st \in {"unavailable", "raises"}}
        \cup {[status |-> "ok", words |-> w, tokens |-> t, spacy_doc |-> sd] :
                w \in DocLemmas, t \in DocLemmas, sd \in DocLemmas}

\* the lemmas of a route: those that are truthy
TruthyLemmas(elems) == SelectSeq(elems, LAMBDA l : l # <<>>)

\* lemmatize_grc_best_effort(tokens)
lemmatize_grc_best_effort(tokens, backend) ==
    IF backend.status # "ok" THEN <<>>
    ELSE IF TruthyLemmas(backend.words) # <<>> THEN TruthyLemmas(backend.words)
    ELSE IF TruthyLemmas(backend.tokens) # <<>> THEN TruthyLemmas(backend.tokens)
    ELSE IF TruthyLemmas(backend.spacy_doc) # <<>> THEN TruthyLemmas(backend.spacy_doc)
    ELSE <<>>

\* lemmatize_grc(tokens)
lemmatize_grc(tokens, backend) == lemmatize_grc_best_effort(tokens, backend)

(***************************************************************************)
(* SpecLemmatize: lemmatize_grc applied to a token list, for every         *)
(* behaviour of the backend.                                               *)
(***************************************************************************)
InitLemmatize ==
    /\ rules_doc = Unused
    /\ rule_hits = Unused
    /\ op = "init"
    /\ call \in [ tokens : {tokenize(normalize_text(t)) : t \in Texts},
                  backend : LemmatizerBackends ]
    /\ ret = Unused
    /\ frame = Unused
    /\ text = Unused
    /\ pack = Unused
    /\ normalized = Unused
    /\ renormalized = Unused
    /\ result = Unused

LemmatizeGrc ==
    /\ op = "init"
    /\ ret' = lemmatize_grc(call.tokens, call.backend)
    /\ op' = "lemmatize_grc"
    /\ UNCHANGED <<call, frame, text, pack, normalized, renormalized, result, rules_doc, rule_hits>>

NextLemmatize == LemmatizeGrc

SpecLemmatize == InitLemmatize /\ [][NextLemmatize]_vars

\* C12: when the lemmatizer backend is unavailable or raises, the adapter
\* returns the normalized input tokens unchanged.
C12_LemmatizerIdentityFallback ==
    (op = "lemmatize_grc" /\ call.backend.status \in {"unavailable", "raises"})
        => ret = call.tokens

\* C13: in every result of CognitivePreprocessor.run, lemmas is a list of
\* the same length as tokens, whatever the lemmatizer backend returned.
C13_LemmasAlignedWithTokens ==
    (op = "run" /\ result.raised = "none")
        => Len(result.lemmas) = Len(result.tokens)

(***************************************************************************)
(* preprocesador/rules_engine.py: load_rules, load_rules_from_yaml,        *)
(* apply_rules.                                                            *)
(*                                                                         *)
(* A rules document is the value yaml.safe_load returns: kind is the type  *)
(* of the root (None, an int, a list, a dict); for a dict, rules is the    *)
(* type of the value under the key 'rules' ("absent" without the key);     *)
(* items are the elements of the root list or of the list under 'rules'.   *)
(* An element is a rule (a dict) or the int 42 (kind "scalar").  A key a   *)
(* rule does not have is "None" (has_all, has_any, has_boost for the keys  *)
(* whose value is a list or a dict).  A clause is {pred: {dim, value}}:    *)
(* value is a number for score_gte and a form for has_form.                *)
(***************************************************************************)
MaxRules == 2       \* elements of a rules list
MaxClauses == 1     \* clauses of an 'all' or 'any' list

YList(items) == [kind |-> "list", rules |-> "absent", items |-> items]

YMap(rules_kind, items) == [kind |-> "map", rules |-> rules_kind, items |-> items]

\* {pred: {dim: dim, value: value}}
Clause(pred, dim, value, form) == [pred |-> pred, dim |-> dim, value |-> value, form |-> form]

NoList == [has |-> FALSE, elems |-> <<>>]

SomeList(elems) == [has |-> TRUE, elems |-> elems]

\* {name, when: {frame, all, any}, then: {label, boost}}
Rule(name, wf, all, any, label, boost) ==
    [ kind |-> "rule", name |-> name, frame |-> wf,
      has_all |-> all.has, when_all |-> all.elems,
      has_any |-> any.has, when_any |-> any.elems,
      label |-> label, message |-> "None",
      has_boost |-> boost.has, boost |-> boost.elems ]

\* an element of a rules list that is not a mapping
ScalarItem ==
    [ kind |-> "scalar", name |-> "None", frame |-> "None",
      has_all |-> FALSE, when_all |-> <<>>,
      has_any |-> FALSE, when_any |-> <<>>,
      label |-> "None", message |-> "None",
      has_boost |-> FALSE, boost |-> <<>> ]

\* load_rules(path), for a file that holds the document doc
load_rules(doc) == [raised |-> "none", value |-> doc]

\* load_rules_from_yaml(path), for a file that holds the document doc
load_rules_from_yaml(doc) ==
    LET from_key == doc.kind = "map" /\ doc.rules # "absent"
        is_list == IF from_key THEN doc.rules = "list" ELSE doc.kind = "list"
    IN  IF doc.kind = "null" THEN [raised |-> "none", value |-> YList(<<>>)]
        ELSE IF ~is_list
        THEN [raised |-> "ValueError", message |-> "Formato invalido"]
        ELSE IF \E i \in 1..Len(doc.items) : doc.items[i].kind # "rule"
        THEN [raised |-> "ValueError", message |-> "Regla invalida (no es dict)"]
        ELSE [raised |-> "none", value |-> YList(doc.items)]

\* _score_gte with `>` in place of `>=`
ScoreGteStrict(scores, dim, value) == DictGet(scores, dim, 0) > value

\* _score_gte(scores, dim, value)
ScoreGte(scores, dim, value) == DictGet(scores, dim, 0) >= value

\* _has_form(matched_forms, dim, value)
HasForm(matched_forms, dim, value) == value \in Range(DictGet(matched_forms, dim, <<>>))

\* eval_clause(clause), inside apply_rules
eval_clause(clause, scores, matched_forms) ==
    IF clause.pred = "score_gte" THEN ScoreGte(scores, clause.dim, clause.value)
    ELSE IF clause.pred = "has_form" THEN HasForm(matched_forms, clause.dim, clause.form)
    ELSE FALSE

\* the test of apply_rules on one rule: frame restriction, ok_all, ok_any
RuleFires(r, frame_name, scores, matched_forms) ==
    /\ r.frame = "None" \/ r.frame = frame_name
    /\ r.has_all => \A i \in 1..Len(r.when_all) :
                        eval_clause(r.when_all[i], scores, matched_forms)
    /\ r.has_any => \E i \in 1..Len(r.when_any) :
                        eval_clause(r.when_any[i], scores, matched_forms)

\* the RuleHit apply_rules builds for a rule
RuleHit(r) ==
    LET rname == IF r.name = "None" THEN "unnamed_rule" ELSE r.name
    IN  [ name |-> rname,
          label |-> IF r.label = "None" THEN rname ELSE r.label,
          message |-> IF r.message = "None" THEN "" ELSE r.message,
          has_boost |-> r.has_boost,
          boost |-> r.boost ]

\* apply_rules with `break` after hits.append: the first hit ends the loop
apply_rules_first_hit(doc, frame_name, scores, matched_forms) ==
    IF doc.kind # "map" THEN [raised |-> "AttributeError"]
    ELSE IF doc.rules = "scalar" THEN [raised |-> "TypeError"]
    ELSE LET rules == IF doc.rules = "list" THEN doc.items ELSE <<>>
             fired == SelectSeq(rules, LAMBDA r :
                         r.kind = "rule" /\ RuleFires(r, frame_name, scores, matched_forms))
         IN  IF fired = <<>> /\ \E i \in 1..Len(rules) : rules[i].kind # "rule"
             THEN [raised |-> "AttributeError"]
             ELSE [ raised |-> "none",
                    value |-> IF fired = <<>> THEN <<>> ELSE <<RuleHit(fired[1])>> ]

\* apply_rules(rules_doc, frame_name, scores, matched_forms): the list of
\* hits, or the exception that leaves the function
apply_rules(doc, frame_name, scores, matched_forms) ==
    IF doc.kind # "map" THEN [raised |-> "AttributeError"]
    ELSE IF doc.rules = "scalar" THEN [raised |-> "TypeError"]
    ELSE LET rules == IF doc.rules = "list" THEN doc.items ELSE <<>>
         IN  IF \E i \in 1..Len(rules) : rules[i].kind # "rule"
             THEN [raised |-> "AttributeError"]
             ELSE LET fired == SelectSeq(rules, LAMBDA r :
                                   RuleFires(r, frame_name, scores, matched_forms))
                  IN  [ raised |-> "none",
                        value |-> [i \in 1..Len(fired) |-> RuleHit(fired[i])] ]

(***************************************************************************)
(* SpecRules: a rules document is loaded with one of the two loaders and   *)
(* what the loader returned is given to apply_rules, as main does in       *)
(* run_pipeline_final.py (an exception raised by the loader ends the run). *)
(***************************************************************************)
\* a rule without conditions that boosts nomos
BoostRule == Rule("r1", "None", NoList, NoList, "None", SomeList(<<<<"nomos", 1>>>>))

\* a rule with a score threshold and a label
ThresholdRule ==
    Rule("r2", "None", SomeList(<<Clause("score_gte", "nomos", 1, <<>>)>>), NoList, "L", NoList)

\* the documents a rules file holds: a root that is not a list or a dict, a
\* dict without a list under 'rules', and a list of rules, bare or under
\* 'rules'; a list has one rule with any conditions, or several elements
RulesDocuments ==
    LET ClausePool == { Clause("score_gte", "nomos", 1, <<>>),
                        Clause("score_gte", "dike", 0, <<>>),
                        Clause("has_form", "nomos", 0, <<"alpha">>),
                        Clause("score_lt", "nomos", 1, <<>>) }
        ClauseLists == {NoList} \cup {SomeList(c) : c \in StringsUpTo(ClausePool, MaxClauses)}
        SingleRules == { Rule("r1", wf, all, any, "None", boost) :
                           wf \in {"None", "attic_tragedy_v0", "other"},
                           all \in ClauseLists, any \in ClauseLists,
                           boost \in {NoList, SomeList(<<<<"nomos", 1>>>>)} }
        RuleItems == { ScalarItem, BoostRule, ThresholdRule,
                       Rule("None", "other", NoList, NoList, "None", NoList) }
        ItemLists == StringsUpTo(RuleItems, MaxRules) \cup {<<r>> : r \in SingleRules}
    IN  {[kind |-> k, rules |-> "absent", items |-> <<>>] : k \in {"null", "scalar"}}
        \cup {YMap("absent", <<>>), YMap("null", <<>>), YMap("scalar", <<>>)}
        \cup {YList(l) : l \in ItemLists}
        \cup {YMap("list", l) : l \in ItemLists}


InitRules ==
    /\ op = "init"
    /\ call \in [ doc : RulesDocuments, frame_name : {"attic_tragedy_v0"},
                  scores : {<<<<"nomos", s>>>> : s \in 0..MaxScore},
                  matched_forms : {<<<<"nomos", <<>>>>>>, <<<<"nomos", <<<<"alpha">>>>>>>>} ]
    /\ rules_doc = Unused
    /\ rule_hits = Unused
    /\ ret = Unused
    /\ frame = Unused
    /\ text = Unused
    /\ pack = Unused
    /\ normalized = Unused
    /\ renormalized = Unused
    /\ result = Unused

LoadRules ==
    /\ op = "init"
    /\ rules_doc' = load_rules(call.doc)
    /\ op' = "load_rules"
    /\ UNCHANGED <<call, rule_hits, ret, frame, text, pack, normalized, renormalized, result>>

LoadRulesFromYaml ==
    /\ op = "init"
    /\ rules_doc' = load_rules_from_yaml(call.doc)
    /\ op' = "load_rules_from_yaml"
    /\ UNCHANGED <<call, rule_hits, ret, frame, text, pack, normalized, renormalized, result>>

ApplyRules ==
    /\ op \in {"load_rules", "load_rules_from_yaml"}
    /\ rules_doc.raised = "none"
    /\ rule_hits' = apply_rules(rules_doc.value, call.frame_name, call.scores, call.matched_forms)
    /\ op' = "apply_rules"
    /\ UNCHANGED <<call, rules_doc, ret, frame, text, pack, normalized, renormalized, result>>

NextRules == LoadRules \/ LoadRulesFromYaml \/ ApplyRules

SpecRules == InitRules /\ [][NextRules]_vars

\* a list that contains an element that is not a mapping
HasNonMapping(items) == \E i \in 1..Len(items) : items[i].kind # "rule"

\* C14: loading a rules document that is a list containing a non-mapping
\* element raises a configuration error at the load step, so apply_rules
\* is never reached on such a document.
C14_NonMappingRuleFailsAtLoad ==
    (call.doc.kind = "list" /\ HasNonMapping(call.doc.items))
        => /\ op \in {"load_rules", "load_rules_from_yaml"}
                => rules_doc.raised = "ValueError"
           /\ op # "apply_rules"

\* the predicate keys eval_clause evaluates
SupportedPredicates == {"score_gte", "has_form"}

\* a list with a rule whose when.all or when.any has a clause with another key
HasUnsupportedPredicate(items) ==
    \E i \in 1..Len(items) :
        \E c \in Range(items[i].when_all) \cup Range(items[i].when_any) :
            c.pred \notin SupportedPredicates

\* C15: a rule whose condition clause uses a predicate key other than
\* score_gte and has_form makes loading fail with an error at load time;
\* apply_rules never evaluates such a clause silently.
C15_UnsupportedPredicateFailsAtLoad ==
    HasUnsupportedPredicate(call.doc.items)
        => /\ op \in {"load_rules", "load_rules_from_yaml"}
                => rules_doc.raised = "ValueError"
           /\ op = "apply_rules" => rule_hits.raised # "none"

\* C18: a list of rules given as a bare list and the same list under the
\* key 'rules' are both accepted by a loader, and apply_rules yields the
\* same sequence of hits for what the loader returned in the two cases.
C18_BareListSameAsWrapped ==
    (op = "apply_rules" /\ call.doc.kind = "list" /\ ~HasNonMapping(call.doc.items))
        => \E wrapped \in { load_rules(YMap("list", call.doc.items)),
                            load_rules_from_yaml(YMap("list", call.doc.items)) } :
              /\ wrapped.raised = "none"
              /\ rule_hits.raised = "none"
              /\ LET h == apply_rules(wrapped.value, call.frame_name, call.scores, call.matched_forms)
                 IN  h.raised = "none" /\ h.value = rule_hits.value

\* the positions of the declared rules whose conditions hold
FiredPositions(rules, frame_name, scores, matched_forms) ==
    {i \in 1..Len(rules) : RuleFires(rules[i], frame_name, scores, matched_forms)}

\* C21: apply_rules evaluates every rule in declaration order and returns
\* the hits in that order: the hits are those of the declared rules whose
\* conditions hold, each at the place it has among them, whatever the rules
\* before it did.
C21_HitsInDeclarationOrder ==
    (op = "apply_rules" /\ rule_hits.raised = "none")
        => LET rules == rules_doc.value.items
               fired == FiredPositions(rules, call.frame_name, call.scores, call.matched_forms)
           IN  /\ Len(rule_hits.value) = Cardinality(fired)
               /\ \A i \in fired :
                     rule_hits.value[Cardinality({j \in fired : j <= i})] = RuleHit(rules[i])

\* a document of two rules was applied and both hit, the threshold rule
\* declared first
C21_Witness ==
    /\ op = "apply_rules"
    /\ rule_hits.raised = "none"
    /\ Len(rules_doc.value.items) = 2
    /\ Len(rule_hits.value) = 2
    /\ rule_hits.value[1].name = "r2"
    /\ rule_hits.value[2].name = "r1"

(***************************************************************************)
(* preprocesador/frame_loader.py: load_frame_from_yaml.                    *)
(*                                                                         *)
(* A frame document is the value yaml.safe_load returns: kind is the type  *)
(* of the root; for a dict, each of name, dimensions and lexicon is the    *)
(* value under that key with its type as kind ("absent" without the key,   *)
(* which doc.get turns into None), and description is "None" without the   *)
(* key.  An element of dimensions is a str or the int 42; a block of the   *)
(* lexicon is a dict, None, or a non-empty list.  The message of a         *)
(* ValueError is kept as the field and the path it names.                  *)
(***************************************************************************)
MaxDims == 2        \* elements of the dimensions list of a frame document

\* _require(False, msg): the ValueError, with what msg names
RequireError(field, dim, p) ==
    [raised |-> "ValueError", field |-> field, dim |-> dim, path |-> p]

\* isinstance(name, str) and name.strip()
ValidName(name) == name.kind = "str" /\ Strip(name.str) # <<>>

\* isinstance(dimensions, list) and all(isinstance(x, str) for x in dimensions)
ValidDimensions(dimensions) ==
    dimensions.kind = "list" /\ \A i \in 1..Len(dimensions.elems) : dimensions.elems[i].is_str

\* lexicon.get(d, {}) or {}
LexiconBlock(lexicon, d) ==
    LET block == DictGet(lexicon.blocks, d, [kind |-> "map", entries |-> <<>>])
    IN  IF block.kind = "null" THEN [kind |-> "map", entries |-> <<>>] ELSE block

\* the loop that builds norm_lex and the Frame the loader returns
NormalizedFrame(doc, lexicon, p) ==
    LET dims == [i \in 1..Len(doc.dimensions.elems) |-> doc.dimensions.elems[i].val]
        bad == SelectSeq(dims, LAMBDA d : LexiconBlock(lexicon, d).kind # "map")
    IN  IF bad # <<>> THEN RequireError("lexicon block", bad[1], p)
        ELSE [ raised |-> "none",
               frame |-> [ name |-> doc.name.str,
                           description |-> IF doc.description = "None" THEN ""
                                           ELSE doc.description,
                           dimensions |-> dims,
                           lexicon |-> [i \in 1..Len(dims) |->
                                          <<dims[i], LexiconBlock(lexicon, dims[i]).entries>>] ] ]

\* load_frame_from_yaml with doc.get("lexicon", {}) in place of doc.get("lexicon")
load_frame_from_yaml_default_lexicon(p, doc) ==
    IF doc.kind # "map" THEN RequireError("root", "None", p)
    ELSE IF ~ValidName(doc.name) THEN RequireError("name", "None", p)
    ELSE IF ~ValidDimensions(doc.dimensions) THEN RequireError("dimensions", "None", p)
    ELSE IF doc.lexicon.kind = "absent"
    THEN NormalizedFrame(doc, [kind |-> "map", blocks |-> <<>>], p)
    ELSE IF doc.lexicon.kind # "map" THEN RequireError("lexicon", "None", p)
    ELSE NormalizedFrame(doc, doc.lexicon, p)

\* load_frame_from_yaml(path), for a file at p that holds the document doc
load_frame_from_yaml(p, doc) ==
    IF doc.kind # "map" THEN RequireError("root", "None", p)
    ELSE IF ~ValidName(doc.name) THEN RequireError("name", "None", p)
    ELSE IF ~ValidDimensions(doc.dimensions) THEN RequireError("dimensions", "None", p)
    ELSE IF doc.lexicon.kind # "map" THEN RequireError("lexicon", "None", p)
    ELSE NormalizedFrame(doc, doc.lexicon, p)

(***************************************************************************)
(* SpecLoader: load_frame_from_yaml applied to a frame document.           *)
(***************************************************************************)
\* the documents a frame file holds; the str values of 'name' are "", " "
\* and "a"
FrameDocuments ==
    LET NameValues ==
            {[kind |-> k, str |-> <<>>] : k \in {"absent", "int"}}
            \cup {[kind |-> "str", str |-> s] : s \in {<<>>, <<"space">>, <<"a">>}}
        DimensionElements ==
            {[is_str |-> TRUE, val |-> d] : d \in DimNames}
            \cup {[is_str |-> FALSE, val |-> "42"]}
        DimensionsValues ==
            {[kind |-> k, elems |-> <<>>] : k \in {"absent", "str"}}
            \cup {[kind |-> "list", elems |-> l] :
                    l \in {x \in StringsUpTo(DimensionElements, MaxDims) :
                             \A i, j \in 1..Len(x) : x[i] = x[j] => i = j}}
        BlockValues ==
            {[kind |-> k, entries |-> <<>>] : k \in {"null", "list"}}
            \cup {[kind |-> "map", entries |-> e] :
                    e \in {<<>>} \cup {<<<<<<"a">>, w>>>> : w \in Weights}}
        LexiconValues ==
            {[kind |-> k, blocks |-> <<>>] : k \in {"absent", "list"}}
            \cup {[kind |-> "map", blocks |-> b] :
                    b \in PartialMaps(<<"nomos", "dike">>, BlockValues)}
    IN  { [ kind |-> k, name |-> [kind |-> "absent", str |-> <<>>], description |-> "None",
            dimensions |-> [kind |-> "absent", elems |-> <<>>],
            lexicon |-> [kind |-> "absent", blocks |-> <<>>] ] :
            k \in {"null", "list", "scalar"} }
        \cup [ kind : {"map"}, name : NameValues, description : {"None", "tragedy"},
               dimensions : DimensionsValues, lexicon : LexiconValues ]

InitLoader ==
    /\ op = "init"
    /\ call \in [path : {"frames/a.yaml", "frames/b.yaml"}, doc : FrameDocuments]
    /\ ret = Unused
    /\ rules_doc = Unused
    /\ rule_hits = Unused
    /\ frame = Unused
    /\ text = Unused
    /\ pack = Unused
    /\ normalized = Unused
    /\ renormalized = Unused
    /\ result = Unused

LoadFrameFromYaml ==
    /\ op = "init"
    /\ ret' = load_frame_from_yaml(call.path, call.doc)
    /\ op' = "load_frame_from_yaml"
    /\ UNCHANGED <<call, rules_doc, rule_hits, frame, text, pack, normalized, renormalized, result>>

NextLoader == LoadFrameFromYaml

SpecLoader == InitLoader /\ [][NextLoader]_vars

\* the fields of a frame document the claim calls offending; a name is
\* non-empty when it has a character that is not whitespace
OffendingFields(doc) ==
    IF doc.kind # "map" THEN {"root"}
    ELSE {f \in {"name", "dimensions", "lexicon"} :
            \/ f = "name" /\ ~(/\ doc.name.kind = "str"
                                /\ \E i \in 1..Len(doc.name.str) : ~IsSpace(doc.name.str[i]))
            \/ f = "dimensions" /\ ~ValidDimensions(doc.dimensions)
            \/ f = "lexicon" /\ doc.lexicon.kind # "map"}

\* C16: load_frame_from_yaml returns no Frame and raises an error that
\* names an offending field and the source path whenever the document is
\* not a mapping at the root, lacks a non-empty string name, has dimensions
\* that are not a list of strings, or has a lexicon that is not a mapping.
C16_LoaderRejectsMalformedFrame ==
    (op = "load_frame_from_yaml" /\ OffendingFields(call.doc) # {})
        => /\ ret.raised = "ValueError"
           /\ ret.field \in OffendingFields(call.doc)
           /\ ret.path = call.path

\* a document whose only offending field is the missing lexicon was
\* rejected with an error that names the lexicon and the path
C16_Witness ==
    /\ op = "load_frame_from_yaml"
    /\ OffendingFields(call.doc) = {"lexicon"}
    /\ call.doc.lexicon.kind = "absent"
    /\ Len(call.doc.dimensions.elems) = 2
    /\ ret.raised = "ValueError"
    /\ ret.field = "lexicon"
    /\ ret.path = "frames/b.yaml"

\* the inputs the claim calls empty: an empty text, a Frame with a dimension
\* whose lexicon is empty, a Frame without dimensions
EmptyInput(fr, txt) ==
    \/ txt = <<>>
    \/ fr.dimensions = <<>>
    \/ \E i \in 1..Len(fr.lexicon) : fr.lexicon[i][2] = <<>>

\* C17: for an empty text, a Frame with an empty lexicon for some or all
\* dimensions, or a Frame with an empty dimension list,
\* CognitivePreprocessor.run raises nothing and returns a result whose
\* scores and evidence are zero and empty where the input is empty (for an
\* empty text, when the lemmatizer gave no lemma either).
C17_EmptyInputsNeverRaise ==
    (op = "run" /\ EmptyInput(frame, text))
        => /\ result.raised = "none"
           /\ DictKeys(result.scores) = frame.dimensions
           /\ \A i \in 1..Len(frame.dimensions) :
                 ((text = <<>> /\ result.lemmas = <<>>) \/ frame.lexicon[i][2] = <<>>)
                    => /\ result.scores[i][2] = 0
                       /\ result.matches[i][2] = <<>>

(***************************************************************************)
(* preprocesador/rules_engine.py: aggregate_boosts.                        *)
(***************************************************************************)
\* aggregate_boosts with `boost[d] = float(v)` in place of `+=`
aggregate_boosts_last_hit(dimensions, hits) ==
    LET counted(d) == SelectSeq(hits, LAMBDA h :
                          h.has_boost /\ h.boost # <<>> /\ DictHas(h.boost, d))
        total(d) == IF counted(d) = <<>> THEN 0
                    ELSE DictGet(counted(d)[Len(counted(d))].boost, d, 0)
    IN  [i \in 1..Len(dimensions) |-> <<dimensions[i], total(dimensions[i])>>]

\* aggregate_boosts(dimensions, hits)
aggregate_boosts(dimensions, hits) ==
    LET counted(d) == SelectSeq(hits, LAMBDA h :
                          h.has_boost /\ h.boost # <<>> /\ DictHas(h.boost, d))
        total(d) == SumSeq([i \in 1..Len(counted(d)) |-> DictGet(counted(d)[i].boost, d, 0)])
    IN  [i \in 1..Len(dimensions) |-> <<dimensions[i], total(dimensions[i])>>]

(***************************************************************************)
(* SpecAggregate: aggregate_boosts applied to a list of dimensions and a   *)
(* list of hits.  The boost of a hit is None, {}, or a dict over nomos,    *)
(* dike and a name that is not a dimension.                                *)
(***************************************************************************)
InitAggregate ==
    /\ op = "init"
    /\ LET BoostDicts == { NoList, SomeList(<<>>), SomeList(<<<<"nomos", 1>>>>),
                           SomeList(<<<<"nomos", 2>>, <<"dike", 1>>>>),
                           SomeList(<<<<"other", 1>>>>) }
           Hits == {RuleHit(Rule("r1", "None", NoList, NoList, "None", b)) : b \in BoostDicts}
       IN  call \in [dimensions : DimOrders, hits : StringsUpTo(Hits, MaxRules)]
    /\ ret = Unused
    /\ rules_doc = Unused
    /\ rule_hits = Unused
    /\ frame = Unused
    /\ text = Unused
    /\ pack = Unused
    /\ normalized = Unused
    /\ renormalized = Unused
    /\ result = Unused

AggregateBoosts ==
    /\ op = "init"
    /\ ret' = aggregate_boosts(call.dimensions, call.hits)
    /\ op' = "aggregate_boosts"
    /\ UNCHANGED <<call, rules_doc, rule_hits, frame, text, pack, normalized, renormalized, result>>

NextAggregate == AggregateBoosts

SpecAggregate == InitAggregate /\ [][NextAggregate]_vars

\* C22: aggregate_boosts returns a map whose keys are exactly the given
\* dimensions; the value of a dimension is the sum, over all hits, of the
\* boost the hit gives to it (nothing for a hit without a boost map or
\* whose map does not list it), so 0 for a dimension listed in no hit, and
\* a boost for a name that is not a given dimension is ignored.
C22_AggregateBoostsSums ==
    op = "aggregate_boosts"
        => /\ DictKeys(ret) = call.dimensions
           /\ \A d \in Range(call.dimensions) :
                 DictGet(ret, d, 0) =
                    SumSeq([i \in 1..Len(call.hits) |->
                              IF call.hits[i].has_boost
                              THEN DictGet(call.hits[i].boost, d, 0) ELSE 0])

\* two hits boost nomos by 1 and by 2, one of them boosts dike, and the
\* sums are 3 and 1
C22_Witness ==
    /\ op = "aggregate_boosts"
    /\ call.dimensions = <<"dike", "nomos">>
    /\ Len(call.hits) = 2
    /\ call.hits[1].boost = <<<<"nomos", 1>>>>
    /\ call.hits[2].boost = <<<<"nomos", 2>>, <<"dike", 1>>>>
    /\ ret = <<<<"dike", 1>>, <<"nomos", 3>>>>

(***************************************************************************)
(* SpecEngine: the scoring calls of main in run_pipeline_final.py, over    *)
(* one Frame and one rule set: CognitivePreprocessor.run (or Frame.score   *)
(* alone), then apply_rules, aggregate_boosts, combine_scores and          *)
(* choose_dominant, each on what the earlier stages returned.  An in-place *)
(* write of the code (frame.py 53-55, 65-67, 71-72; pipeline.py 38;        *)
(* rules_engine.py 104, 122; ensemble.py 40) is made on an object the call *)
(* itself created, so a call changes the variable of its own output only.  *)
(***************************************************************************)
\* the Frames of the engine runs: every weight is 1
EngineFrames ==
    {f \in Frames : \A i \in 1..Len(f.lexicon) :
                       \A j \in 1..Len(f.lexicon[i][2]) : f.lexicon[i][2][j][2] = 1}

\* the product of the numbers of s
RECURSIVE Product(_)
Product(s) == IF s = <<>> THEN 1 ELSE Head(s) * Product(Tail(s))

InitEngine ==
    /\ op = "init"
    /\ frame \in EngineFrames
    /\ rules_doc \in {load_rules(YMap("list", l)) :
                         l \in {<<BoostRule>>, <<ThresholdRule, BoostRule>>}}
    /\ rule_hits = Unused
    /\ text = Unused
    /\ pack = Unused
    /\ result = Unused
    /\ call = Unused
    /\ ret = Unused
    /\ normalized = Unused
    /\ renormalized = Unused

EngineScore ==
    /\ op = "init"
    /\ \E txt \in Texts :
         \E lemmas_raw \in LemmatizeOutcomes(tokenize(normalize_text(txt))) :
            /\ text' = txt
            /\ pack' = FrameScore(frame, txt, lemmas_raw)
    /\ op' = "score"
    /\ UNCHANGED <<frame, rules_doc, rule_hits, result, call, ret, normalized, renormalized>>

EngineRun ==
    /\ op = "init"
    /\ \E txt \in Texts :
         \E lemmas_raw \in LemmatizeOutcomes(tokenize(normalize_text(txt))) :
            /\ text' = txt
            /\ result' = CognitivePreprocessorRun(frame, txt, lemmas_raw)
    /\ op' = "run"
    /\ UNCHANGED <<frame, rules_doc, rule_hits, pack, call, ret, normalized, renormalized>>

EngineApplyRules ==
    /\ op = "run"
    /\ result.raised = "none"
    /\ rule_hits' = apply_rules(rules_doc.value, frame.name, result.scores, result.matched_forms)
    /\ op' = "apply_rules"
    /\ UNCHANGED <<frame, rules_doc, text, pack, result, call, ret, normalized, renormalized>>

\* aggregate_boosts with `boost = hits[0].boost` in place of a new dict
EngineAggregateBoostsInPlace ==
    /\ op = "apply_rules"
    /\ rule_hits.raised = "none"
    /\ ret' = [rule_boosts |-> aggregate_boosts(frame.dimensions, rule_hits.value)]
    /\ rule_hits' = IF rule_hits.value = <<>> THEN rule_hits
                    ELSE [rule_hits EXCEPT !.value[1].boost = ret'.rule_boosts]
    /\ op' = "aggregate_boosts"
    /\ UNCHANGED <<frame, rules_doc, text, pack, result, call, normalized, renormalized>>

EngineAggregateBoosts ==
    /\ op = "apply_rules"
    /\ rule_hits.raised = "none"
    /\ ret' = [rule_boosts |-> aggregate_boosts(frame.dimensions, rule_hits.value)]
    /\ op' = "aggregate_boosts"
    /\ UNCHANGED <<frame, rules_doc, rule_hits, text, pack, result, call, normalized, renormalized>>

\* lexical scores are whole numbers; in the units of minmax_norm they are
\* multiples of 2e12, and every multiple from Epsilon up gives the same
\* quotients
EngineCombineScores ==
    /\ op = "aggregate_boosts"
    /\ LET lex == [i \in 1..Len(result.scores) |->
                     <<result.scores[i][1], result.scores[i][2] * Epsilon>>]
       IN  ret' = [ rule_boosts |-> ret.rule_boosts,
                    final_scores |-> combine_scores(frame.dimensions, lex,
                                                    <<>>, ret.rule_boosts,
                                                    DefaultAlpha, DefaultBeta, DefaultGamma) ]
    /\ op' = "combine_scores"
    /\ UNCHANGED <<frame, rules_doc, rule_hits, text, pack, result, call, normalized, renormalized>>

\* choose_dominant compares the final scores: the quotients are given to
\* it as numbers over one common denominator
EngineChooseDominant ==
    /\ op = "combine_scores"
    /\ LET fs == ret.final_scores
           dens == [i \in 1..Len(fs) |-> fs[i][2][2]]
           final == [i \in 1..Len(fs) |->
                       <<fs[i][1],
                         fs[i][2][1] * Product([j \in 1..Len(dens) |->
                                                  IF j = i THEN 1 ELSE dens[j]])>>]
       IN  ret' = [ rule_boosts |-> ret.rule_boosts,
                    final_scores |-> ret.final_scores,
                    dominant |-> choose_dominant(final, result.matches, frame.dimensions) ]
    /\ op' = "choose_dominant"
    /\ UNCHANGED <<frame, rules_doc, rule_hits, text, pack, result, call, normalized, renormalized>>

NextEngine ==
    \/ EngineScore
    \/ EngineRun
    \/ EngineApplyRules
    \/ EngineAggregateBoosts
    \/ EngineCombineScores
    \/ EngineChooseDominant

SpecEngine == InitEngine /\ [][NextEngine]_vars

\* C19: every scoring call leaves the Frame and the rule set equal to
\* their values before the call, and leaves unchanged every map and list
\* that an earlier stage returned: the result of run, the hits of
\* apply_rules, the boosts of aggregate_boosts, the final scores of
\* combine_scores.
C19_ScoringLeavesInputsUnchanged ==
    [][ /\ frame' = frame
        /\ rules_doc' = rules_doc
        /\ op' \in {"apply_rules", "aggregate_boosts", "combine_scores", "choose_dominant"}
              => result' = result
        /\ op' \in {"aggregate_boosts", "combine_scores", "choose_dominant"}
              => rule_hits' = rule_hits
        /\ op' \in {"combine_scores", "choose_dominant"}
              => ret'.rule_boosts = ret.rule_boosts
        /\ op' = "choose_dominant" => ret'.final_scores = ret.final_scores ]_vars

\* all the calls were made on a Frame with two lexicon entries and a rule
\* set of two rules, both rules hit and the boost of one was aggregated
C19_Witness ==
    /\ op = "choose_dominant"
    /\ Len(frame.dimensions) = 2
    /\ \A i \in 1..2 : frame.lexicon[i][2] # <<>>
    /\ Len(rules_doc.value.items) = 2
    /\ Len(rule_hits.value) = 2
    /\ DictGet(ret.rule_boosts, "nomos", 0) = 1
    /\ ret.dominant.dominant = "nomos"

(***************************************************************************)
(* SpecConcurrent: several calls of CognitivePreprocessor.run on one       *)
(* shared Frame, interleaved.  A call goes through the stages of           *)
(* Frame.score (the dicts of lines 35-43 are created, the form pass, the   *)
(* lemma pass, the sorts) and then resolves the dominant dimension and     *)
(* returns.  The dicts a call fills are objects: pack maps the identity of *)
(* an object to its content, and PackOf names the object a call works on.  *)
(* call maps each call to its locals, result to what it returned.          *)
(***************************************************************************)
MaxCalls == 2       \* concurrent calls of run

Calls == 1..MaxCalls

\* the dicts of the calls as one object that every call works on
PackOfShared(c) == 1

\* the object with the dicts of call c: they are locals of the call
PackOf(c) == c

\* the Frame shared by the calls has two dimensions of one term each, one
\* with U+03AC and the other with "a"
InitConcurrent ==
    /\ op = "init"
    /\ frame \in {f \in EngineFrames :
                     /\ f.dimensions = <<"nomos", "dike">>
                     /\ \A i \in 1..2 : Len(f.lexicon[i][2]) = 1
                     /\ {f.lexicon[i][2][1][1] : i \in 1..2} = {<<"alpha_tonos">>, <<"a">>}}
    /\ call = [c \in Calls |-> [pc |-> "idle", text |-> <<>>, lemmas_raw |-> <<>>]]
    /\ pack = [o \in Calls |-> Unused]
    /\ result = [c \in Calls |-> Unused]
    /\ rules_doc = Unused
    /\ rule_hits = Unused
    /\ ret = Unused
    /\ text = Unused
    /\ normalized = Unused
    /\ renormalized = Unused

\* run is called: Frame.score normalizes, tokenizes, lemmatizes and creates
\* its dicts, one key per dimension (frame.py 35-43)
CallRun(c) ==
    /\ call[c].pc = "idle"
    /\ \E txt \in Words :
         \E lemmas_raw \in LemmatizeOutcomes(tokenize(normalize_text(txt))) :
            call' = [call EXCEPT ![c] = [pc |-> "forms", text |-> txt, lemmas_raw |-> lemmas_raw]]
    /\ LET dims == frame.dimensions
           zeros == [i \in 1..Len(dims) |-> <<dims[i], 0>>]
           empties == [i \in 1..Len(dims) |-> <<dims[i], <<>>>>]
       IN  pack' = [pack EXCEPT ![PackOf(c)] =
                      [ scores |-> zeros, matches_forms |-> empties,
                        matches_lemmas |-> empties, matched_forms |-> empties,
                        matched_lemmas |-> empties ]]
    /\ op' = "run"
    /\ UNCHANGED <<frame, result, rules_doc, rule_hits, ret, text, normalized, renormalized>>

\* frame.py 49-55: the form pass, on the dicts of the call
ScoreForms(c) ==
    /\ call[c].pc = "forms"
    /\ LET pk == pack[PackOf(c)]
           dims == frame.dimensions
           tok_set == Range(tokenize(normalize_text(call[c].text)))
           hits(d) == FormHits(LexiconItems(frame.lexicon, d), tok_set)
           PerDim(F(_)) == [i \in 1..Len(dims) |-> <<dims[i], F(dims[i])>>]
           score(d) == DictGet(pk.scores, d, 0) + SumSeq(DictValues(hits(d)))
           forms(d) == DictGet(pk.matches_forms, d, <<>>) \o hits(d)
           matched(d) == DictGet(pk.matched_forms, d, <<>>) \o NormalizedTerms(hits(d))
       IN  pack' = [pack EXCEPT ![PackOf(c)] =
                      [pk EXCEPT !.scores = PerDim(score), !.matches_forms = PerDim(forms),
                                 !.matched_forms = PerDim(matched)]]
    /\ call' = [call EXCEPT ![c].pc = "lemmas"]
    /\ op' = "forms"
    /\ UNCHANGED <<frame, result, rules_doc, rule_hits, ret, text, normalized, renormalized>>

\* frame.py 58-67: the lemma pass, on the dicts of the call
ScoreLemmas(c) ==
    /\ call[c].pc = "lemmas"
    /\ LET pk == pack[PackOf(c)]
           dims == frame.dimensions
           lemma_set == Range(NormalizeLemmas(call[c].lemmas_raw))
           already(d) == Range(DictGet(pk.matched_forms, d, <<>>))
           hits(d) == LemmaHits(LexiconItems(frame.lexicon, d), already(d), lemma_set)
           PerDim(F(_)) == [i \in 1..Len(dims) |-> <<dims[i], F(dims[i])>>]
           score(d) == DictGet(pk.scores, d, 0) + SumSeq(DictValues(hits(d)))
           lems(d) == DictGet(pk.matches_lemmas, d, <<>>) \o hits(d)
           matched(d) == DictGet(pk.matched_lemmas, d, <<>>) \o NormalizedTerms(hits(d))
       IN  pack' = [pack EXCEPT ![PackOf(c)] =
                      [pk EXCEPT !.scores = PerDim(score), !.matches_lemmas = PerDim(lems),
                                 !.matched_lemmas = PerDim(matched)]]
    /\ call' = [call EXCEPT ![c].pc = "sort"]
    /\ op' = "lemmas"
    /\ UNCHANGED <<frame, result, rules_doc, rule_hits, ret, text, normalized, renormalized>>

\* frame.py 70-75: the sorts, on the dicts of the call
ScoreSort(c) ==
    /\ call[c].pc = "sort"
    /\ LET pk == pack[PackOf(c)]
           dims == frame.dimensions
           PerDim(F(_)) == [i \in 1..Len(dims) |-> <<dims[i], F(dims[i])>>]
           sorted_forms(d) == SortByKeyDesc(DictGet(pk.matches_forms, d, <<>>))
           sorted_lems(d) == SortByKeyDesc(DictGet(pk.matches_lemmas, d, <<>>))
           set_forms(d) == SortedStrings(Range(DictGet(pk.matched_forms, d, <<>>)))
           set_lems(d) == SortedStrings(Range(DictGet(pk.matched_lemmas, d, <<>>)))
       IN  pack' = [pack EXCEPT ![PackOf(c)] =
                      [pk EXCEPT !.matches_forms = PerDim(sorted_forms),
                                 !.matches_lemmas = PerDim(sorted_lems),
                                 !.matched_forms = PerDim(set_forms),
                                 !.matched_lemmas = PerDim(set_lems)]]
    /\ call' = [call EXCEPT ![c].pc = "dominant"]
    /\ op' = "sort"
    /\ UNCHANGED <<frame, result, rules_doc, rule_hits, ret, text, normalized, renormalized>>

\* the rest of run: the dominant dimension and the PreprocessResult, which
\* holds the dicts of the pack
ReturnRun(c) ==
    /\ call[c].pc = "dominant"
    /\ LET pk == pack[PackOf(c)]
           dims == frame.dimensions
           combined_matches ==
               [i \in 1..Len(dims) |->
                   <<dims[i], DictGet(pk.matches_forms, dims[i], <<>>)
                              \o DictGet(pk.matches_lemmas, dims[i], <<>>)>>]
           dominant == RunDominant(pk.scores, combined_matches, dims)
           value ==
               IF dominant = "IndexError"
               THEN [raised |-> "IndexError"]
               ELSE [ raised |-> "none",
                      frame |-> frame.name,
                      scores |-> pk.scores,
                      dominant_dimension |-> dominant,
                      normalized_text |-> normalize_text(call[c].text),
                      tokens |-> tokenize(normalize_text(call[c].text)),
                      lemmas |-> NormalizeLemmas(call[c].lemmas_raw),
                      matched_forms |-> pk.matched_forms,
                      matched_lemmas |-> pk.matched_lemmas,
                      matches |-> combined_matches,
                      matches_lemmas |-> pk.matches_lemmas ]
       IN  result' = [result EXCEPT ![c] = [value |-> value, object |-> PackOf(c)]]
    /\ call' = [call EXCEPT ![c].pc = "done"]
    /\ op' = "return"
    /\ UNCHANGED <<frame, pack, rules_doc, rule_hits, ret, text, normalized, renormalized>>

NextConcurrent ==
    \E c \in Calls :
        \/ CallRun(c)
        \/ ScoreForms(c)
        \/ ScoreLemmas(c)
        \/ ScoreSort(c)
        \/ ReturnRun(c)

SpecConcurrent == InitConcurrent /\ [][NextConcurrent]_vars

\* C20: in every interleaving of concurrent run calls on one Frame, each
\* call returns exactly the result it returns when run alone, and the
\* results of two calls hold different dict objects.
C20_ConcurrentRunsIndependent ==
    \A c \in Calls :
        call[c].pc = "done"
            => /\ result[c].value =
                     CognitivePreprocessorRun(frame, call[c].text, call[c].lemmas_raw)
               /\ \A d \in Calls \ {c} :
                     call[d].pc = "done" => result[d].object # result[c].object

\* two calls on different texts have returned different results: call 1
\* scored nomos, and the lemma evidence of the two differs
C20_Witness ==
    /\ call[1].pc = "done"
    /\ call[2].pc = "done"
    /\ result[1].value.scores # result[2].value.scores
    /\ DictGet(result[1].value.scores, "nomos", 0) = 1
    /\ result[2].value.matches_lemmas # result[1].value.matches_lemmas

\* C23: after Frame.score, for every dimension and every normalized term,
\* at most one entry of the form evidence and the lemma evidence together
\* is a lexicon term that normalizes to it and added a weight to the score;
\* this covers distinct lexicon terms with one normalized form.
C23_NormalizedTermCountedOnce ==
    op = "score" =>
        \A d \in DeclaredDims :
            LET evidence == DictGet(pack.matches_forms, d, <<>>)
                            \o DictGet(pack.matches_lemmas, d, <<>>)
            IN  \A i, j \in 1..Len(evidence) :
                    (/\ normalize_text(evidence[i][1]) = normalize_text(evidence[j][1])
                     /\ evidence[i][2] # 0
                     /\ evidence[j][2] # 0) => i = j

\* C24: every Frame load_frame_from_yaml returns has a lexicon whose term
\* weights are all non-negative: a document with a negative weight gives
\* no Frame.
C24_LoadedWeightsNonNegative ==
    (op = "load_frame_from_yaml" /\ ret.raised = "none")
        => \A i \in 1..Len(ret.frame.lexicon) :
              \A j \in 1..Len(ret.frame.lexicon[i][2]) :
                 ret.frame.lexicon[i][2][j][2] >= 0

\* what the claim says of a clause: score_gte(dim, value) holds iff
\* scores[dim], 0.0 if missing, is at least value, and has_form(dim, value)
\* iff value is in matched_forms[dim]
ClauseHolds(c, scores, matched_forms) ==
    \/ /\ c.pred = "score_gte"
       /\ \/ \E k \in 1..Len(scores) : scores[k][1] = c.dim /\ scores[k][2] >= c.value
          \/ (\A k \in 1..Len(scores) : scores[k][1] # c.dim) /\ 0 >= c.value
    \/ /\ c.pred = "has_form"
       /\ \E k \in 1..Len(matched_forms) :
             /\ matched_forms[k][1] = c.dim
             /\ \E n \in 1..Len(matched_forms[k][2]) : matched_forms[k][2][n] = c.form

\* what the claim says of a rule: no other frame, every clause under `all`,
\* and one clause under `any` if the rule has the key
RuleConditionsHold(r, frame_name, scores, matched_forms) ==
    /\ r.frame \in {"None", frame_name}
    /\ \A c \in Range(r.when_all) : ClauseHolds(c, scores, matched_forms)
    /\ r.has_any => \E c \in Range(r.when_any) : ClauseHolds(c, scores, matched_forms)

\* C25: apply_rules produces a hit for a rule exactly when the rule has no
\* frame restriction or is restricted to frame_name, every clause under
\* `all` holds and, with `any` present, some clause under `any` holds; a
\* rule restricted to another frame never hits.  Stated for the rules whose
\* clauses are score_gte and has_form clauses.
C25_HitExactlyWhenConditionsHold ==
    (/\ op = "apply_rules"
     /\ rule_hits.raised = "none"
     /\ ~HasUnsupportedPredicate(rules_doc.value.items))
        => LET rules == rules_doc.value.items
               holding == {i \in 1..Len(rules) :
                             RuleConditionsHold(rules[i], call.frame_name,
                                                call.scores, call.matched_forms)}
           IN  /\ Len(rule_hits.value) = Cardinality(holding)
               /\ Len(rules) = 1 => (rule_hits.value # <<>> <=> holding = {1})
               /\ \A i \in 1..Len(rules) :
                     rules[i].frame \notin {"None", call.frame_name} => i \notin holding

\* a rule restricted to the frame of the call hit: its `all` clause is a
\* score_gte on a dimension missing from the scores and its `any` clause a
\* has_form on a matched form
C25_Witness ==
    /\ op = "apply_rules"
    /\ rule_hits.raised = "none"
    /\ Len(rules_doc.value.items) = 1
    /\ rules_doc.value.items[1].frame = call.frame_name
    /\ rules_doc.value.items[1].when_all = <<Clause("score_gte", "dike", 0, <<>>)>>
    /\ rules_doc.value.items[1].when_any = <<Clause("has_form", "nomos", 0, <<"alpha">>)>>
    /\ Len(rule_hits.value) = 1

\* C26: for a non-empty score map, whatever the evidence map and
\* dims_order (missing, empty, or omitting tied dimensions), the dominant
\* choose_dominant returns is a key of the score map whose score is the
\* maximum score.
C26_DominantHasMaxScore ==
    (op = "choose_dominant" /\ call.scores # <<>>)
        => /\ ret.dominant \in Range(DictKeys(call.scores))
           /\ \A d \in Range(DictKeys(call.scores)) :
                 DictGet(call.scores, d, 0) <= DictGet(call.scores, ret.dominant, 0)

\* a and b share the maximum and the evidence count, dims_order lists only
\* c, whose score is lower, and the dominant is a
C26_Witness ==
    /\ op = "choose_dominant"
    /\ call.scores = <<<<"a", 1>>, <<"b", 1>>, <<"c", 0>>>>
    /\ call.evidence = <<<<"c", <<"x", "x">>>>>>
    /\ call.dims_order = <<"c">>
    /\ ret.dominant = "a"

\* C29: choose_dominant returns (None, False) for an empty score map,
\* tie_break False when exactly one dimension has the maximum score, and
\* tie_break True when two or more have it, whether the evidence count or
\* the declared order resolved the tie.
C29_TieBreakFlag ==
    op = "choose_dominant"
        => /\ call.scores = <<>> => ret = [dominant |-> "None", tie_break |-> FALSE]
           /\ call.scores # <<>> => (ret.tie_break <=> Cardinality(TopDims(call.scores)) >= 2)

\* three dimensions share the maximum, b alone has the most evidence, and
\* the flag is True
C29_Witness ==
    /\ op = "choose_dominant"
    /\ call.scores = <<<<"c", 1>>, <<"b", 1>>, <<"a", 1>>>>
    /\ call.evidence = <<<<"a", <<"x">>>>, <<"b", <<"x", "x">>>>>>
    /\ call.dims_order = <<"a", "b", "c">>
    /\ ret = [dominant |-> "b", tie_break |-> TRUE]

\* the evidence lists of a pack are by non-increasing weight and its
\* matched lists strictly ascending (sorted, without duplicates)
PackSorted(pk) ==
    /\ \A m \in {pk.matches_forms, pk.matches_lemmas} :
          \A k \in 1..Len(m) :
             \A i, j \in 1..Len(m[k][2]) : i < j => m[k][2][i][2] >= m[k][2][j][2]
    /\ \A m \in {pk.matched_forms, pk.matched_lemmas} :
          \A k \in 1..Len(m) :
             \A i, j \in 1..Len(m[k][2]) : i < j => StrLess(m[k][2][i], m[k][2][j])

\* the orders in which the entries of a lexicon block can be iterated
BlockOrders(block) ==
    IF block = <<>> THEN {<<>>}
    ELSE {[i \in 1..Len(block) |-> block[p[i]]] : p \in Permutations(1..Len(block))}

\* the Frames that differ from fr in the iteration order of one lexicon
\* block
LexiconReorderings(fr) ==
    UNION { {[fr EXCEPT !.lexicon[i][2] = b] : b \in BlockOrders(fr.lexicon[i][2]) \ {fr.lexicon[i][2]}} :
              i \in {k \in 1..Len(fr.lexicon) : Len(fr.lexicon[k][2]) > 1} }

\* the packs Frame.score gives for the text and the lemmas of the pack when
\* the lexicon is iterated in another order, and when the text is written
\* twice, so that every token occurs twice as often
PacksOfSameInput ==
    {FrameScore(f, text, pack.lemmas) : f \in LexiconReorderings(frame)}
    \cup {FrameScore(frame, JoinWords(<<text, text>>), pack.lemmas)}

IsCombiningMark(ch) == ch \in {"acute", "circle"}

\* no whitespace at either end and no two whitespace characters in a row
TrimmedAndCollapsed(s) ==
    /\ s # <<>> => ~IsSpace(s[1]) /\ ~IsSpace(s[Len(s)])
    /\ \A i \in 1..(Len(s) - 1) : ~(IsSpace(s[i]) /\ IsSpace(s[i + 1]))

C30_RunTieBreakIsCanonical ==
    (op = "run" /\ frame.dimensions # <<>>)
        => /\ result.raised = "none"
           /\ result.dominant_dimension
                 = choose_dominant(result.scores, result.matches, frame.dimensions).dominant

\* two dimensions tied on the score, the second declared has two evidence
\* entries and the first none, and run gave the second
C30_Witness ==
    /\ op = "run"
    /\ result.raised = "none"
    /\ Len(frame.dimensions) = 2
    /\ result.scores[1][2] = result.scores[2][2]
    /\ result.matches[1][2] = <<>>
    /\ Len(result.matches[2][2]) = 2
    /\ result.dominant_dimension = frame.dimensions[2]

====
